---- MODULE Spec2Model ----
(***************************************************************************)
(* A model of puffin's runtime engine: the variable store and its two      *)
(* mutexes (variables.rs), the tree walkers (treewalk.rs), the routine     *)
(* runner and statement interpreter (ast.rs) and the driver (lib.rs).      *)
(*                                                                         *)
(* Threads: 0 is the thread that called driver; 1..MaxThreads are the      *)
(* worker threads of treewalk_multi_threaded, thread w owning the queue    *)
(* workers[w-1] / stealers[w-1] of the source.                             *)
(***************************************************************************)
EXTENDS Integers, Sequences, FiniteSets, TLC

(***************************************************************************)
(* Bounds                                                                  *)
(***************************************************************************)
MaxThreads == 2
NEntries == 5

(***************************************************************************)
(* The directory tree.  Entries are 1..NEntries, 1 is the path given to    *)
(* driver, the parent of e is e \div 2.                                    *)
(***************************************************************************)
Main == 0
NoFile == 0
Root == 1
Entries == 1..NEntries
Threads == 0..MaxThreads
WorkerIds == 1..MaxThreads

Parent(e) == e \div 2
Children(e) == {c \in Entries : c # Root /\ Parent(c) = e}
IsDir(e) == Children(e) # {} \/ e <= 3

RECURSIVE SetToSeq(_)
SetToSeq(S) ==
    IF S = {} THEN <<>>
    ELSE LET m == CHOOSE x \in S : \A y \in S : x <= y
         IN <<m>> \o SetToSeq(S \ {m})

\* variant: the listing descends one level and yields the entries of the
\* subdirectories before the subdirectories themselves
DirListDeepFirst(d) ==
    SetToSeq({c \in Entries : c # Root /\ Parent(c) # Root /\ Parent(Parent(c)) = d})
        \o SetToSeq(Children(d))
\* the entries std::fs::read_dir yields for directory d, in a fixed order
DirList(d) == SetToSeq(Children(d))

RECURSIVE Ancestors(_)
Ancestors(e) == IF e = Root THEN {} ELSE {Parent(e)} \cup Ancestors(Parent(e))

(***************************************************************************)
(* Values (types.rs).  Every value is a record with the same three fields  *)
(* so that values of different kinds can be keys of one map.               *)
(***************************************************************************)
VInt(i) == [t |-> "int", n |-> i, s |-> ""]
VStr(str) == [t |-> "str", n |-> 0, s |-> str]
VBool(b) == [t |-> "bool", n |-> IF b THEN 1 ELSE 0, s |-> ""]
VSpecial(kind, i) == [t |-> kind, n |-> i, s |-> ""]
SpecialKinds == {"ino", "mode", "uid", "devno"}
IsSpecial(v) == v.t \in SpecialKinds

\* a result of an evaluation: err = "none" means Ok(val); md is the state of
\* the FileState's metadata cell after the evaluation
Res(err, val, md) == [err |-> err, val |-> val, md |-> md]
Ok(val, md) == Res("none", val, md)
Err(kind, md) == Res(kind, VInt(0), md)

\* variant: every value counts as true
IsTruthyAlways(v) == [err |-> "none", b |-> TRUE]
\* Value::is_truthy; a special value is a runtime error
IsTruthy(v) ==
    CASE v.t = "int" -> [err |-> "none", b |-> v.n # 0]
      [] v.t = "str" -> [err |-> "none", b |-> v.s # ""]
      [] v.t = "bool" -> [err |-> "none", b |-> v.n = 1]
      [] OTHER -> [err |-> "Runtime", b |-> FALSE]

\* variant: a special value is coerced to its payload
ToIntegerFailsNever(v) == FALSE
\* Value::to_signed_int, lines 59-63: a special value is not coerced, the
\* call raises the runtime error
ToIntegerFails(v) == IsSpecial(v)

\* Value::to_integer for the three plain kinds; the strings of the model
\* (names and paths) do not parse as integers, so they fall back to 0
ToInteger(v) ==
    CASE v.t = "int" -> v.n
      [] v.t = "str" -> 0
      [] v.t = "bool" -> v.n
      [] OTHER -> v.n

ArithOps == {"+", "-", "*", "/"}
OrderOps == {">", ">=", "<", "<="}

\* i64 division rounds toward zero
Quotient(l, r) ==
    LET al == IF l < 0 THEN -l ELSE l
        ar == IF r < 0 THEN -r ELSE r
    IN IF (l < 0) = (r < 0) THEN al \div ar ELSE -(al \div ar)

IntegerOp(op, l, r) ==
    CASE op = "+" -> l + r
      [] op = "-" -> l - r
      [] op = "*" -> l * r
      [] op = "/" -> Quotient(l, r)

IntToBoolOp(op, l, r) ==
    CASE op = ">" -> l > r
      [] op = ">=" -> l >= r
      [] op = "<" -> l < r
      [] op = "<=" -> l <= r

\* SpecialValue::equality
SpecialEquality(sp, other) ==
    CASE other.t = "int" ->
            IF other.n < 0 THEN [err |-> "Runtime", val |-> VInt(0)]
            ELSE [err |-> "none", val |-> VBool(sp.n = other.n)]
      [] IsSpecial(other) ->
            IF sp.t = other.t THEN [err |-> "none", val |-> VBool(sp.n = other.n)]
            ELSE [err |-> "Runtime", val |-> VInt(0)]
      [] OTHER -> [err |-> "Runtime", val |-> VInt(0)]

\* the operators `and` and `or` of the language
LogicOps == {"and", "or"}
\* variant: `or` with a true left side and `and` with a false left side
\* leave the right operand unevaluated
SkipsRightOnValue(op, l) ==
    /\ op \in LogicOps /\ IsTruthy(l).err = "none"
    /\ IsTruthy(l).b = (op = "or")
\* BinaryOp::evaluate evaluates `right` unconditionally once `left` is
\* evaluated: no value of the left operand skips the right one
SkipsRight(op, l) == FALSE

\* Value::binary_op: arithmetic and ordering coerce both sides to integers,
\* which is a runtime error for a special value; equality is structural
\* except for special values
BinaryOp(op, l, r) ==
    CASE op \in ArithOps ->
            IF ToIntegerFails(l) \/ ToIntegerFails(r)
            THEN [err |-> "Runtime", val |-> VInt(0)]
            ELSE IF op = "/" /\ ToInteger(r) = 0
            THEN \* `l / r` on i64: a zero divisor panics
                 [err |-> "Panic", val |-> VInt(0)]
            ELSE [err |-> "none", val |-> VInt(IntegerOp(op, ToInteger(l), ToInteger(r)))]
      [] op \in OrderOps ->
            IF ToIntegerFails(l) \/ ToIntegerFails(r)
            THEN [err |-> "Runtime", val |-> VInt(0)]
            ELSE [err |-> "none", val |-> VBool(IntToBoolOp(op, ToInteger(l), ToInteger(r)))]
      [] op = "==" ->
            IF IsSpecial(l) THEN SpecialEquality(l, r)
            ELSE IF IsSpecial(r) THEN SpecialEquality(r, l)
            ELSE [err |-> "none", val |-> VBool(l = r)]
      [] op \in LogicOps ->
            \* `and`/`or`: both sides are coerced to booleans by truthiness,
            \* the result is a boolean; a side without truthiness is a
            \* runtime error
            IF IsTruthy(l).err # "none" \/ IsTruthy(r).err # "none"
            THEN [err |-> "Runtime", val |-> VInt(0)]
            ELSE [err |-> "none",
                  val |-> VBool(IF op = "and" THEN IsTruthy(l).b /\ IsTruthy(r).b
                                ELSE IsTruthy(l).b \/ IsTruthy(r).b)]

(***************************************************************************)
(* Expressions, variables, statements (ast.rs, variables.rs)               *)
(***************************************************************************)
Atom(v) == [e |-> "atom", v |-> v]
Attr(a) == [e |-> "attr", a |-> a]
Var(x) == [e |-> "var", x |-> x]
Bin(op, l, r) == [e |-> "bin", op |-> op, l |-> l, r |-> r]

Scalar(id) == [k |-> "scalar", id |-> id]
Arr(id) == [k |-> "arr", id |-> id]
ArrSub(id, sub) == [k |-> "arrsub", id |-> id, sub |-> sub]

Assignment(lhs, rhs) == [st |-> "assign", lhs |-> lhs, rhs |-> rhs]
\* variant: a compound assignment compiled as a plain assignment
PlusEqualPlain(lhs, rhs) == Assignment(lhs, rhs)
\* Compiler::compound_assignment: `x += e` is the assignment x = x + e
PlusEqual(lhs, rhs) == Assignment(lhs, Bin("+", Var(lhs), rhs))
PrintSt(args) == [st |-> "print", args |-> args]

\* Action: has = FALSE is `statements: None`, the default action
Action(sts) == [has |-> TRUE, sts |-> sts]
DefaultAction == [has |-> FALSE, sts |-> <<>>]
\* Routine: hasCond = FALSE is `cond: None`
Routine(cond, action) == [hasCond |-> TRUE, cond |-> cond, action |-> action]
Always(action) == [hasCond |-> FALSE, cond |-> Atom(VInt(1)), action |-> action]
\* Option<Action> of BEGIN and END
SomeAction(a) == [some |-> TRUE, action |-> a]
NoAction == [some |-> FALSE, action |-> DefaultAction]

\* Program; analysis is "Panic" when the analysis pass of the compiler
\* panicked on the text, "ok" for a program that compile returned
Program(begin, routines, end, numScalars, numArrays) ==
    [begin |-> begin, routines |-> routines, end |-> end,
     numScalars |-> numScalars, numArrays |-> numArrays, analysis |-> "ok"]

(***************************************************************************)
(* Compilation (compiler.rs, ast/analysis.rs).  A program text is written  *)
(* as a Program whose variables are identifiers: Ident(name) for a bare    *)
(* identifier and Subscripted(name, e) for name[e].  Array ids and scalar  *)
(* slots are numbered from 1, in the order the names are first met.        *)
(***************************************************************************)
Ident(name) == [k |-> "ident", name |-> name]
Subscripted(name, sub) == [k |-> "subscripted", name |-> name, sub |-> sub]
\* Variable::NotYetKnown
NotYetKnown(name) == [k |-> "unknown", name |-> name]

Range(s) == {s[i] : i \in DOMAIN s}
IndexOf(s, x) == CHOOSE i \in DOMAIN s : s[i] = x

\* Compiler::add_array: the id the name has in known_arrays, a new id for a
\* new name
AddArray(known, name) ==
    IF name \in Range(known) THEN [known |-> known, id |-> IndexOf(known, name)]
    ELSE [known |-> Append(known, name), id |-> Len(known) + 1]

RECURSIVE ParseExpression(_, _)
\* Compiler::variable: an identifier followed by `[` is an array subscript,
\* any other identifier is left for the analysis pass
ParseVariable(x, known) ==
    IF x.k = "subscripted"
    THEN LET a == AddArray(known, x.name)
             s == ParseExpression(x.sub, a.known)
         IN [x |-> ArrSub(a.id, s.e), known |-> s.known]
    ELSE [x |-> NotYetKnown(x.name), known |-> known]

\* Compiler::expression
ParseExpression(e, known) ==
    CASE e.e = "var" ->
            LET v == ParseVariable(e.x, known)
            IN [e |-> Var(v.x), known |-> v.known]
      [] e.e = "bin" ->
            LET l == ParseExpression(e.l, known)
                r == ParseExpression(e.r, l.known)
            IN [e |-> Bin(e.op, l.e, r.e), known |-> r.known]
      [] OTHER -> [e |-> e, known |-> known]

RECURSIVE ParseExpressions(_, _, _)
ParseExpressions(es, known, done) ==
    IF es = <<>> THEN [es |-> done, known |-> known]
    ELSE LET r == ParseExpression(es[1], known)
         IN ParseExpressions(Tail(es), r.known, Append(done, r.e))

\* Compiler::statement
ParseStatement(st, known) ==
    IF st.st = "assign"
    THEN LET l == ParseVariable(st.lhs, known)
             r == ParseExpression(st.rhs, l.known)
         IN [st |-> Assignment(l.x, r.e), known |-> r.known]
    ELSE LET a == ParseExpressions(st.args, known, <<>>)
         IN [st |-> PrintSt(a.es), known |-> a.known]

RECURSIVE ParseStatements(_, _, _)
ParseStatements(sts, known, done) ==
    IF sts = <<>> THEN [sts |-> done, known |-> known]
    ELSE LET r == ParseStatement(sts[1], known)
         IN ParseStatements(Tail(sts), r.known, Append(done, r.st))

\* Compiler::action
ParseAction(a, known) ==
    IF ~a.has THEN [action |-> a, known |-> known]
    ELSE LET s == ParseStatements(a.sts, known, <<>>)
         IN [action |-> Action(s.sts), known |-> s.known]

\* Compiler::routine
ParseRoutine(r, known) ==
    LET c == IF r.hasCond THEN ParseExpression(r.cond, known)
             ELSE [e |-> r.cond, known |-> known]
        a == ParseAction(r.action, c.known)
    IN [routine |-> [hasCond |-> r.hasCond, cond |-> c.e, action |-> a.action],
        known |-> a.known]

RECURSIVE ParseRoutines(_, _, _)
ParseRoutines(rs, known, done) ==
    IF rs = <<>> THEN [routines |-> done, known |-> known]
    ELSE LET r == ParseRoutine(rs[1], known)
         IN ParseRoutines(Tail(rs), r.known, Append(done, r.routine))

\* Compiler::compile, lines 40-68: the whole text is parsed, here in the
\* order BEGIN, routines, END, before the analysis pass starts
Parse(text) ==
    LET b == ParseAction(text.begin.action, <<>>)
        rs == ParseRoutines(text.routines, b.known, <<>>)
        e == ParseAction(text.end.action, rs.known)
    IN [prog |-> [text EXCEPT !.begin.action = b.action,
                              !.routines = rs.routines,
                              !.end.action = e.action],
        known |-> e.known]

\* VarsMap::new_variable and VarsMap::scalar
NewVariable(name, known, sm) ==
    IF name \in Range(known) THEN [x |-> Arr(IndexOf(known, name)), sm |-> sm]
    ELSE IF name \in Range(sm) THEN [x |-> Scalar(IndexOf(sm, name)), sm |-> sm]
    ELSE [x |-> Scalar(Len(sm) + 1), sm |-> Append(sm, name)]

\* analyze_expression: a NotYetKnown variable is replaced; the subscript of
\* an ArrSub is not visited
RECURSIVE AnalyzeExpression(_, _, _)
AnalyzeExpression(e, known, sm) ==
    CASE e.e = "var" ->
            IF e.x.k = "unknown"
            THEN LET v == NewVariable(e.x.name, known, sm)
                 IN [e |-> Var(v.x), sm |-> v.sm]
            ELSE [e |-> e, sm |-> sm]
      [] e.e = "bin" ->
            LET l == AnalyzeExpression(e.l, known, sm)
                r == AnalyzeExpression(e.r, known, l.sm)
            IN [e |-> Bin(e.op, l.e, r.e), sm |-> r.sm]
      [] OTHER -> [e |-> e, sm |-> sm]

RECURSIVE AnalyzeExpressions(_, _, _, _)
AnalyzeExpressions(es, known, sm, done) ==
    IF es = <<>> THEN [es |-> done, sm |-> sm]
    ELSE LET r == AnalyzeExpression(es[1], known, sm)
         IN AnalyzeExpressions(Tail(es), known, r.sm, Append(done, r.e))

\* analyze_assignment: an assignee that resolves to an array name panics
AnalyzeAssignment(st, known, sm) ==
    LET l == IF st.lhs.k = "unknown" THEN NewVariable(st.lhs.name, known, sm)
             ELSE [x |-> st.lhs, sm |-> sm]
        r == AnalyzeExpression(st.rhs, known, l.sm)
    IN IF l.x.k = "arr"
       THEN [st |-> Assignment(l.x, st.rhs), sm |-> l.sm, res |-> "Panic"]
       ELSE [st |-> Assignment(l.x, r.e), sm |-> r.sm, res |-> "ok"]

\* analyze_action, lines 77-86: the statements in order
RECURSIVE AnalyzeStatements(_, _, _, _)
AnalyzeStatements(sts, known, sm, done) ==
    IF sts = <<>> THEN [sts |-> done, sm |-> sm, res |-> "ok"]
    ELSE IF sts[1].st = "assign"
    THEN LET r == AnalyzeAssignment(sts[1], known, sm)
         IN IF r.res = "Panic"
            THEN [sts |-> Append(done, r.st) \o Tail(sts), sm |-> r.sm, res |-> "Panic"]
            ELSE AnalyzeStatements(Tail(sts), known, r.sm, Append(done, r.st))
    ELSE LET r == AnalyzeExpressions(sts[1].args, known, sm, <<>>)
         IN AnalyzeStatements(Tail(sts), known, r.sm, Append(done, PrintSt(r.es)))

\* analyze_action
AnalyzeAction(a, known, sm) ==
    IF ~a.has THEN [action |-> a, sm |-> sm, res |-> "ok"]
    ELSE LET s == AnalyzeStatements(a.sts, known, sm, <<>>)
         IN [action |-> Action(s.sts), sm |-> s.sm, res |-> s.res]

\* analyze_routine
AnalyzeRoutine(r, known, sm) ==
    LET c == IF r.hasCond THEN AnalyzeExpression(r.cond, known, sm)
             ELSE [e |-> r.cond, sm |-> sm]
        a == AnalyzeAction(r.action, known, c.sm)
    IN [routine |-> [hasCond |-> r.hasCond, cond |-> c.e, action |-> a.action],
        sm |-> a.sm, res |-> a.res]

RECURSIVE AnalyzeRoutines(_, _, _, _)
AnalyzeRoutines(rs, known, sm, done) ==
    IF rs = <<>> THEN [routines |-> done, sm |-> sm, res |-> "ok"]
    ELSE LET r == AnalyzeRoutine(rs[1], known, sm)
         IN IF r.res = "Panic"
            THEN [routines |-> Append(done, r.routine) \o Tail(rs), sm |-> r.sm,
                  res |-> "Panic"]
            ELSE AnalyzeRoutines(Tail(rs), known, r.sm, Append(done, r.routine))

\* analyze: BEGIN's action, every routine, END's action; the result is the
\* number of scalars
Analyze(p, known) ==
    LET b == AnalyzeAction(p.begin.action, known, <<>>)
        rs == IF b.res = "ok" THEN AnalyzeRoutines(p.routines, known, b.sm, <<>>)
              ELSE [routines |-> p.routines, sm |-> b.sm, res |-> "Panic"]
        e == IF rs.res = "ok" THEN AnalyzeAction(p.end.action, known, rs.sm)
             ELSE [action |-> p.end.action, sm |-> rs.sm, res |-> "Panic"]
    IN [p EXCEPT !.begin.action = b.action, !.routines = rs.routines,
                 !.end.action = e.action, !.numScalars = Len(e.sm),
                 !.numArrays = Len(known), !.analysis = e.res]

\* Compiler::compile, lines 70-78
Compile(text) ==
    LET parsed == Parse(text) IN Analyze(parsed.prog, parsed.known)



(***************************************************************************)
(* The programs the model runs (the source text is given with each).       *)
(* Scalar slots and array ids are numbered from 1.                         *)
(***************************************************************************)
\* { v += 1 } end { print v }
CounterProg ==
    Program(NoAction,
            <<Always(Action(<<PlusEqual(Scalar(1), Atom(VInt(1)))>>))>>,
            SomeAction(Action(<<PrintSt(<<Var(Scalar(1))>>)>>)), 1, 0)

\* { tot += .size } end { print tot }
SumSizeProg ==
    Program(NoAction,
            <<Always(Action(<<PlusEqual(Scalar(1), Attr("size"))>>))>>,
            SomeAction(Action(<<PrintSt(<<Var(Scalar(1))>>)>>)), 1, 0)

\* { arr[1] = 1; arr2[arr[1]] = 2; arr[1] += arr2[arr[1]] }
\* end { print arr2[arr[1]], arr2[1], arr[1] }
ArraysProg ==
    LET one == Atom(VInt(1))
        arr1 == ArrSub(1, one)
        arr2arr1 == ArrSub(2, Var(arr1))
    IN Program(NoAction,
            <<Always(Action(<<Assignment(arr1, one),
                              Assignment(arr2arr1, Atom(VInt(2))),
                              PlusEqual(arr1, Var(arr2arr1))>>))>>,
            SomeAction(Action(<<PrintSt(<<Var(arr2arr1), Var(ArrSub(2, one)), Var(arr1)>>)>>)),
            0, 2)

\* v > 1 { print .owner + 1 } { v += 1 } end { print v }
OwnerErrorProg ==
    Program(NoAction,
            <<Routine(Bin(">", Var(Scalar(1)), Atom(VInt(1))),
                      Action(<<PrintSt(<<Bin("+", Attr("owner"), Atom(VInt(1)))>>)>>)),
              Always(Action(<<PlusEqual(Scalar(1), Atom(VInt(1)))>>))>>,
            SomeAction(Action(<<PrintSt(<<Var(Scalar(1))>>)>>)), 1, 0)

\* a[.size] { print .name, a } { a[.size] += 1 }
SubscriptProg ==
    LET asize == ArrSub(1, Attr("size"))
    IN Program(NoAction,
            <<Routine(Var(asize), Action(<<PrintSt(<<Attr("name"), Var(Arr(1))>>)>>)),
              Always(Action(<<PlusEqual(asize, Atom(VInt(1)))>>))>>,
            NoAction, 0, 1)

\* begin { x = .size; x = 5 } { print x + x } end { print .path }
BeginAttrProg ==
    Program(SomeAction(Action(<<Assignment(Scalar(1), Attr("size")),
                                Assignment(Scalar(1), Atom(VInt(5)))>>)),
            <<Always(Action(<<PrintSt(<<Bin("+", Var(Scalar(1)), Var(Scalar(1)))>>)>>))>>,
            SomeAction(Action(<<PrintSt(<<Attr("path")>>)>>)), 1, 0)

\* .size > 1        (a condition with the default action)
DefaultActionProg ==
    Program(NoAction,
            <<Routine(Bin(">", Attr("size"), Atom(VInt(1))), DefaultAction)>>,
            NoAction, 0, 0)

\* { print .owner + 1 }
SpecialArithProg ==
    Program(NoAction,
            <<Always(Action(<<PrintSt(<<Bin("+", Attr("owner"), Atom(VInt(1)))>>)>>))>>,
            NoAction, 0, 0)

\* { a[.owner] = 3; a["7"] = 2; print a[7], a[.owner], a["7"] }
KeysProg ==
    LET own == ArrSub(1, Attr("owner"))
        str == ArrSub(1, Atom(VStr("7")))
    IN Program(NoAction,
            <<Always(Action(<<Assignment(own, Atom(VInt(3))),
                              Assignment(str, Atom(VInt(2))),
                              PrintSt(<<Var(ArrSub(1, Atom(VInt(7)))), Var(own),
                                        Var(str)>>)>>))>>,
            NoAction, 0, 1)

\* { a = 2 } end { print a[1] }
ArrayAssignText ==
    Program(NoAction,
            <<Always(Action(<<Assignment(Ident("a"), Atom(VInt(2)))>>))>>,
            SomeAction(Action(<<PrintSt(<<Var(Subscripted("a", Atom(VInt(1))))>>)>>)),
            0, 0)
\* what compile makes of it: `a` is array 1, and the analysis pass panics on
\* the assignment, leaving END as it was parsed
ArrayAssignProg ==
    [Program(NoAction,
             <<Always(Action(<<Assignment(Arr(1), Atom(VInt(2)))>>))>>,
             SomeAction(Action(<<PrintSt(<<Var(ArrSub(1, Atom(VInt(1))))>>)>>)),
             0, 1) EXCEPT !.analysis = "Panic"]

\* { i = 1; arr[i] = 2 } end { print arr[1], i }
SubscriptVarText ==
    Program(NoAction,
            <<Always(Action(<<Assignment(Ident("i"), Atom(VInt(1))),
                              Assignment(Subscripted("arr", Var(Ident("i"))),
                                         Atom(VInt(2)))>>))>>,
            SomeAction(Action(<<PrintSt(<<Var(Subscripted("arr", Atom(VInt(1)))),
                                          Var(Ident("i"))>>)>>)),
            0, 0)
\* what compile makes of it: `i` is scalar slot 1 where it stands alone and
\* stays Variable::NotYetKnown inside the subscript
SubscriptVarProg ==
    Program(NoAction,
            <<Always(Action(<<Assignment(Scalar(1), Atom(VInt(1))),
                              Assignment(ArrSub(1, Var(NotYetKnown("i"))),
                                         Atom(VInt(2)))>>))>>,
            SomeAction(Action(<<PrintSt(<<Var(ArrSub(1, Atom(VInt(1)))),
                                          Var(Scalar(1))>>)>>)),
            1, 1)

\* the program texts among Programs, and what compile makes of them
ProgramTexts == {ArrayAssignText, SubscriptVarText}
Compiled == {Compile(text) : text \in ProgramTexts}

\* .size == 2 { arr["two"] += 1 } .size == 1 { arr["one"] += 1 } end { print arr }
CountFilesArraysProg ==
    LET count(n, key) ==
            Routine(Bin("==", Attr("size"), Atom(VInt(n))),
                    Action(<<PlusEqual(ArrSub(1, Atom(VStr(key))), Atom(VInt(1)))>>))
    IN Program(NoAction, <<count(2, "two"), count(1, "one")>>,
               SomeAction(Action(<<PrintSt(<<Var(Arr(1))>>)>>)), 0, 1)

\* .size > 0 { print 2 / .size } .size > 1 { print 2 / 0 }
DivideProg ==
    LET two == Atom(VInt(2))
    IN Program(NoAction,
            <<Routine(Bin(">", Attr("size"), Atom(VInt(0))),
                      Action(<<PrintSt(<<Bin("/", two, Attr("size"))>>)>>)),
              Routine(Bin(">", Attr("size"), Atom(VInt(1))),
                      Action(<<PrintSt(<<Bin("/", two, Atom(VInt(0)))>>)>>))>>,
            NoAction, 0, 0)

\* { arr[1] = .ino; arr[1] += 1 }
SpecialStoreProg ==
    LET arr1 == ArrSub(1, Atom(VInt(1)))
    IN Program(NoAction,
            <<Always(Action(<<Assignment(arr1, Attr("ino")),
                              PlusEqual(arr1, Atom(VInt(1)))>>))>>,
            NoAction, 0, 1)

\* { v = .owner } end { print v }
SpecialScalarProg ==
    Program(NoAction,
            <<Always(Action(<<Assignment(Scalar(1), Attr("owner"))>>))>>,
            SomeAction(Action(<<PrintSt(<<Var(Scalar(1))>>)>>)), 1, 0)

\* { print .name, .path }
NameOnlyProg ==
    Program(NoAction,
            <<Always(Action(<<PrintSt(<<Attr("name"), Attr("path")>>)>>))>>,
            NoAction, 0, 0)

\* { arr[1] = 1 } arr["key"] { print "skipped" }
\* arr["key"] + arr[1] { print "output" }
VisibleProg ==
    LET one == Var(ArrSub(1, Atom(VInt(1))))
        key == Var(ArrSub(1, Atom(VStr("key"))))
    IN Program(NoAction,
            <<Always(Action(<<Assignment(ArrSub(1, Atom(VInt(1))), Atom(VInt(1)))>>)),
              Routine(key, Action(<<PrintSt(<<Atom(VStr("skipped"))>>)>>)),
              Routine(Bin("+", key, one),
                      Action(<<PrintSt(<<Atom(VStr("output"))>>)>>))>>,
            NoAction, 0, 1)

(***************************************************************************)
(* The expression parser of the compiler (compiler.rs), on a sequence of   *)
(* tokens: values and binary operators.                                    *)
(***************************************************************************)
Num(n) == [k |-> "val", v |-> VInt(n)]
Op(o) == [k |-> "op", op |-> o]

\* Compiler::op_precedence
OpPrecedence(op) ==
    CASE op \in {"*", "/"} -> 3
      [] op \in {"+", "-"} -> 2
      [] OTHER -> 1

\* Compiler::expression from the token at `pos`: a factor (Compiler::factor
\* on a value token is the atom of the value), then the loop over the
\* operators that follow.  The result is the expression and the
\* position of the first token not consumed.
RECURSIVE ExpressionLoop(_, _, _, _)
ExpressionLoop(toks, pos, left, minPrecedence) ==
    IF pos > Len(toks) \/ toks[pos].k # "op" THEN [e |-> left, pos |-> pos]
    ELSE LET op == toks[pos].op
         IN IF OpPrecedence(op) < minPrecedence THEN [e |-> left, pos |-> pos]
            ELSE \* self.expression(Self::op_precedence(op)): the right
                 \* operand is parsed with the operator's own precedence
                 \* as the minimum
                 LET right == ExpressionLoop(toks, pos + 2, Atom(toks[pos + 1].v),
                                             OpPrecedence(op))
                 IN ExpressionLoop(toks, right.pos, Bin(op, left, right.e),
                                   minPrecedence)
Expression(toks) == ExpressionLoop(toks, 2, Atom(toks[1].v), 0).e

\* { print 2 + 3 * 2 / 3 }, the printed expression as Compiler::expression
\* builds it
PrecedenceProg ==
    LET two == Atom(VInt(2))
        three == Atom(VInt(3))
    IN Program(NoAction,
            <<Always(Action(<<PrintSt(<<Bin("+", two,
                                           Bin("*", three, Bin("/", two, three)))>>)>>))>>,
            NoAction, 0, 0)

\* 0 or 1 { print 9 } 1 and 0 { print 8 } 1 or .owner + 1 { print 7 }
LogicProg ==
    Program(NoAction,
            <<Routine(Bin("or", Atom(VInt(0)), Atom(VInt(1))),
                      Action(<<PrintSt(<<Atom(VInt(9))>>)>>)),
              Routine(Bin("and", Atom(VInt(1)), Atom(VInt(0))),
                      Action(<<PrintSt(<<Atom(VInt(8))>>)>>)),
              Routine(Bin("or", Atom(VInt(1)), Bin("+", Attr("owner"), Atom(VInt(1)))),
                      Action(<<PrintSt(<<Atom(VInt(7))>>)>>))>>,
            NoAction, 0, 0)

Programs == <<CounterProg, SumSizeProg, ArraysProg, OwnerErrorProg,
              SubscriptProg, BeginAttrProg, DefaultActionProg, SpecialArithProg,
              KeysProg, ArrayAssignProg, CountFilesArraysProg, DivideProg,
              SpecialStoreProg, SpecialScalarProg, NameOnlyProg, SubscriptVarProg,
              VisibleProg, LogicProg, PrecedenceProg>>


\* the failures of the filesystem calls: at most one call site fails in a run
NoFault == [kind |-> "none", at |-> 0]
Faults == {NoFault} \cup
          {[kind |-> k, at |-> e] : k \in {"readdir", "entry", "filetype", "stat"}, e \in Entries}

(***************************************************************************)
(* State                                                                   *)
(***************************************************************************)
VARIABLES
    prog,       \* index into Programs of the program text args.prog
    nThreads,   \* Args.n_threads
    rootIsDir,  \* whether the path given to driver is a directory
    fault,      \* the filesystem call that fails in this run, if any
    th,         \* per thread: position in the code and local variables
    scalars,    \* LockedVars.scalars: slot -> i64
    arrays,     \* LockedVars.arrays: array id -> map from Value to i64
    mutex,      \* holder of the scalars mutex, the arrays mutex, the sink's lock
    queues,     \* worker w's deque of directory paths
    stack,      \* the path stack of treewalk_single_threaded
    sentinel,   \* the one-shot runtime error cell of ProgramState
    out,        \* the sink: the lines written so far
    walk,       \* the driver thread's walk: workers spawned, result
    hist        \* history of the run, used to state properties

vars == <<prog, nThreads, rootIsDir, fault, th, scalars, arrays, mutex,
          queues, stack, sentinel, out, walk, hist>>

P == Programs[prog]
Free == -1

(***************************************************************************)
(* File attributes (types.rs) and FileState's metadata cell                *)
(***************************************************************************)
NameOf(e) == "n" \o ToString(e)

RECURSIVE PathOf(_)
PathOf(e) == IF e = Root THEN NameOf(e) ELSE PathOf(Parent(e)) \o "/" \o NameOf(e)

\* Attribute::evaluate_needs_stat on successfully read metadata
AttrValue(a, f) ==
    CASE a = "size" -> VInt((f - 1) \div 2)
      [] a = "owner" -> VSpecial("uid", 7)
      [] a = "ino" -> VSpecial("ino", f)
      [] a = "type" -> VStr(IF IsDir(f) THEN "dir" ELSE "file")

StatFails(f) == fault.kind = "stat" /\ fault.at = f

\* FileState::get_metadata: the first call stats the file and stores the
\* metadata or the I/O error kind; later calls reuse what was stored
GetMetadata(f, md) ==
    IF md = "unset" THEN (IF StatFails(f) THEN "err" ELSE "ok") ELSE md

\* variant: every attribute, .name and .path too, asks for the metadata
EvalAttrStatAlways(a, f, md) ==
    IF f = NoFile THEN Err("AttributeInBeginOrEnd", md)
    ELSE LET md2 == GetMetadata(f, md)
         IN IF md2 = "err" THEN Err("IoError", md2)
            ELSE IF a = "name" THEN Ok(VStr(NameOf(f)), md2)
            ELSE IF a = "path" THEN Ok(VStr(PathOf(f)), md2)
            ELSE Ok(AttrValue(a, f), md2)
\* variant: an attribute read without a file aborts the thread
EvalAttrPanicInBegin(a, f, md) ==
    IF f = NoFile THEN Err("Panic", md)
    ELSE IF a = "name" THEN Ok(VStr(NameOf(f)), md)
    ELSE IF a = "path" THEN Ok(VStr(PathOf(f)), md)
    ELSE LET md2 == GetMetadata(f, md)
         IN IF md2 = "err" THEN Err("IoError", md2) ELSE Ok(AttrValue(a, f), md2)
\* Attribute::evaluate
EvalAttr(a, f, md) ==
    IF f = NoFile THEN Err("AttributeInBeginOrEnd", md)
    ELSE IF a = "name" THEN Ok(VStr(NameOf(f)), md)
    ELSE IF a = "path" THEN Ok(VStr(PathOf(f)), md)
    ELSE LET md2 == GetMetadata(f, md)
         IN IF md2 = "err" THEN Err("IoError", md2) ELSE Ok(AttrValue(a, f), md2)

(***************************************************************************)
(* The store's maps (variables.rs, Arrays)                                 *)
(***************************************************************************)
EmptyMap == [k \in {} |-> 0]

\* Arrays::get_variable's lookup: a missing key reads as 0
Lookup(m, key) == IF key \in DOMAIN m THEN m[key] ELSE 0

\* variant: a special value is stored under the integer of its magnitude
SetEntryByMagnitude(m, key, val) ==
    LET k0 == IF IsSpecial(key) THEN VInt(key.n) ELSE key
    IN [k \in DOMAIN m \cup {k0} |-> IF k = k0 THEN ToInteger(val) ELSE m[k]]
\* Arrays::set_variable
SetEntry(m, key, val) ==
    [k \in DOMAIN m \cup {key} |-> IF k = key THEN ToInteger(val) ELSE m[k]]

Display(v) ==
    CASE v.t = "int" -> ToString(v.n)
      [] v.t = "str" -> v.s
      [] v.t = "bool" -> (IF v.n = 1 THEN "True" ELSE "False")
      [] OTHER -> ToString(v.n)

\* a fixed enumeration of a map's keys (HashMap iteration order is unspecified)
RECURSIVE KeySeq(_)
KeySeq(K) ==
    IF K = {} THEN <<>>
    ELSE LET k == CHOOSE x \in K : TRUE IN <<k>> \o KeySeq(K \ {k})

RECURSIVE JoinItems(_, _)
JoinItems(m, ks) ==
    IF ks = <<>> THEN ""
    ELSE LET item == Display(ks[1]) \o ": " \o ToString(m[ks[1]])
         IN IF Len(ks) = 1 THEN item ELSE item \o "\n" \o JoinItems(m, Tail(ks))

\* variant: the first entry is consumed by the probe and not written
ArrayToStringSkipFirst(m) ==
    IF DOMAIN m = {} THEN "" ELSE JoinItems(m, Tail(KeySeq(DOMAIN m)))
\* Arrays::array_to_string
ArrayToString(m) == JoinItems(m, KeySeq(DOMAIN m))

(***************************************************************************)
(* Evaluation through the Unlocked view: UnlockedVars::get_variable and    *)
(* Expression::evaluate with the store passed by reference                 *)
(***************************************************************************)
RECURSIVE EvalU(_, _, _, _, _)
EvalU(e, f, md, sc, ar) ==
    CASE e.e = "atom" -> Ok(e.v, md)
      [] e.e = "attr" -> EvalAttr(e.a, f, md)
      [] e.e = "var" ->
            (CASE e.x.k = "scalar" -> Ok(VInt(sc[e.x.id]), md)
               [] e.x.k = "unknown" -> Err("Panic", md)
               [] e.x.k = "arr" -> Err("Panic", md)
               [] e.x.k = "arrsub" ->
                    LET sub == EvalU(e.x.sub, f, md, sc, ar)
                    IN IF sub.err # "none" THEN sub
                       ELSE Ok(VInt(Lookup(ar[e.x.id], sub.val)), sub.md))
      [] e.e = "bin" ->
            \* `let l = ...; let r = ...`: each operand is evaluated once
            \* and its value bound
            CHOOSE res \in
                {IF l.err # "none" THEN l
                 ELSE IF SkipsRight(e.op, l.val) THEN Ok(VBool(e.op = "or"), l.md)
                 ELSE CHOOSE res2 \in
                        {IF r.err # "none" THEN r
                         ELSE CHOOSE res3 \in
                                {Res(b.err, b.val, r.md) :
                                    b \in {BinaryOp(e.op, l.val, r.val)}} : TRUE
                         : r \in {EvalU(e.r, f, l.md, sc, ar)}} : TRUE
                 : l \in {EvalU(e.l, f, md, sc, ar)}} : TRUE

(***************************************************************************)
(* Evaluation through the Locked view.  Every variable met is one call of  *)
(* LockedVars::get_variable, a critical section of its own; `reads` holds  *)
(* the results of the calls already made for this expression, in order.    *)
(* The result is either done (a Res) or the next variable to read.         *)
(***************************************************************************)
LDone(r, rest) == [st |-> "done", err |-> r.err, val |-> r.val, md |-> r.md,
                   rest |-> rest, x |-> Scalar(0)]

RECURSIVE EvalL(_, _, _, _)
EvalL(e, f, md, reads) ==
    CASE e.e = "atom" -> LDone(Ok(e.v, md), reads)
      [] e.e = "attr" -> LDone(EvalAttr(e.a, f, md), reads)
      [] e.e = "var" ->
            IF reads = <<>>
            THEN [st |-> "need", err |-> "none", val |-> VInt(0), md |-> md,
                  rest |-> <<>>, x |-> e.x]
            ELSE LDone(Res(reads[1].err, reads[1].val, md), Tail(reads))
      [] e.e = "bin" ->
            \* each operand is evaluated once and its value bound
            CHOOSE res \in
                {IF l.st = "need" \/ l.err # "none" THEN l
                 ELSE IF SkipsRight(e.op, l.val)
                      THEN LDone(Ok(VBool(e.op = "or"), l.md), l.rest)
                 ELSE CHOOSE res2 \in
                        {IF r.st = "need" \/ r.err # "none" THEN r
                         ELSE CHOOSE res3 \in
                                {LDone(Res(b.err, b.val, r.md), r.rest) :
                                    b \in {BinaryOp(e.op, l.val, r.val)}} : TRUE
                         : r \in {EvalL(e.r, f, l.md, l.rest)}} : TRUE
                 : l \in {EvalL(e.l, f, md, reads)}} : TRUE

\* Statement::interpret's formatting of a print: the displayed values
\* separated by one space, then a newline
RECURSIVE FormatLine(_)
FormatLine(items) ==
    IF items = <<>> THEN "\n"
    ELSE IF Len(items) = 1 THEN items[1] \o "\n"
    ELSE items[1] \o " " \o FormatLine(Tail(items))

\* the arguments of a print statement, evaluated left to right
RECURSIVE EvalArgs(_, _, _, _, _)
EvalArgs(args, f, md, reads, items) ==
    IF args = <<>> THEN [st |-> "done", err |-> "none", md |-> md, x |-> Scalar(0),
                         items |-> items]
    ELSE LET r == EvalL(args[1], f, md, reads)
         IN IF r.st = "need" \/ r.err # "none"
            THEN [st |-> r.st, err |-> r.err, md |-> r.md, x |-> r.x, items |-> items]
            ELSE EvalArgs(Tail(args), f, r.md, r.rest, Append(items, Display(r.val)))

\* the variants of errors::Error
ErrorKinds == {"CompileError", "AttributeInBeginOrEnd", "IoError", "Runtime"}

\* variant: every error is passed on
FilterNothing(err) == err
\* filter_non_fatal_errors: only a runtime error leaves the per-file boundary
FilterNonFatal(err) == IF err = "Runtime" THEN "Runtime" ELSE "none"

(***************************************************************************)
(* Initial state                                                           *)
(***************************************************************************)
IdleThread ==
    [pc |-> "idle", unit |-> "none", file |-> NoFile, md |-> "unset",
     ri |-> 0, si |-> 0, reads |-> <<>>, want |-> <<>>, op |-> "none",
     back |-> "none", new |-> VInt(0), res |-> "none", ret |-> "none",
     dir |-> 0, pending |-> <<>>, stealIdx |-> 0, line |-> "",
     raw |-> "none", pre |-> [sc |-> <<>>, ar |-> <<>>], errAt |-> NoFile]

\* a RuntimeError value: its message is told apart by the entry it was
\* raised on; NoError is the empty one-shot cell and the Ok result
RuntimeErrorAt(e) == [err |-> "Runtime", at |-> e]
NoError == [err |-> "none", at |-> NoFile]

FaultPossible(isDir, flt) ==
    CASE flt.kind = "none" -> TRUE
      [] flt.kind = "stat" -> isDir \/ flt.at = Root
      [] flt.kind = "readdir" -> isDir /\ IsDir(flt.at)
      [] OTHER -> isDir /\ flt.at # Root

Init ==
    /\ prog \in DOMAIN Programs   \* args.prog, one of the program texts
    /\ nThreads \in 1..MaxThreads
    /\ rootIsDir \in BOOLEAN
    /\ fault \in {flt \in Faults : FaultPossible(rootIsDir, flt)}
    /\ th = [t \in Threads |-> IF t = Main THEN [IdleThread EXCEPT !.pc = "start"]
                                ELSE IdleThread]
    /\ scalars = [i \in 1..P.numScalars |-> 0]
    /\ arrays = [i \in 1..P.numArrays |-> EmptyMap]
    /\ mutex = [S |-> Free, A |-> Free, sink |-> Free]
    /\ queues = [w \in WorkerIds |-> <<>>]
    /\ stack = <<>>
    /\ sentinel = NoError
    /\ out = <<>>
    /\ walk = [spawned |-> 0, res |-> "none", errAt |-> NoFile,
               \* the result cell of the driver before it has returned
               driver |-> [err |-> "unset", at |-> NoFile]]
    /\ hist = [ran |-> [e \in Entries |-> 0], pushed |-> [e \in Entries |-> 0],
               taken |-> [e \in Entries |-> 0], begins |-> 0, ends |-> 0,
               assigns |-> 0, io |-> {}, prints |-> 0]

(***************************************************************************)
(* Helpers of the actions                                                  *)
(***************************************************************************)
Held(t) == {m \in {"S", "A", "sink"} : mutex[m] = t}

\* the routine list thread t is running: BEGIN's or END's action, or the
\* program's routines on a file
Units(u) ==
    CASE u = "begin" -> <<Always(P.begin.action)>>
      [] u = "end" -> <<Always(P.end.action)>>
      [] OTHER -> P.routines

CurRoutine(t) == Units(th[t].unit)[th[t].ri]
CurStatement(t) == CurRoutine(t).action.sts[th[t].si]

\* set fields of thread t's record
Upd(t, r) == [th EXCEPT ![t] = r]

\* start running a routine list on thread t
Call(t, unit, file, ret) ==
    [th[t] EXCEPT !.pc = "routine", !.unit = unit, !.file = file, !.md = "unset",
                  !.ri = 1, !.si = 0, !.reads = <<>>, !.res = "none", !.ret = ret,
                  !.raw = "none", !.errAt = NoFile]

\* the routine list returns err to its caller
Return(t, err) ==
    [th[t] EXCEPT !.pc = th[t].ret, !.unit = "none", !.file = NoFile, !.md = "unset",
                  !.ri = 0, !.si = 0, !.reads = <<>>, !.ret = "none", !.raw = err,
                  !.res = IF th[t].unit = "file" THEN FilterNonFatal(err) ELSE err,
                  !.errAt = IF err = "Runtime" THEN th[t].file ELSE NoFile]

\* a stat performed by thread t when the metadata cell goes from unset to set
LogStat(t, md2) ==
    IF th[t].md = "unset" /\ md2 # "unset"
    THEN [hist EXCEPT !.io = @ \cup {[op |-> "stat", held |-> Held(t), at |-> th[t].pc]}]
    ELSE hist

\* variant: an array read that locks arrays before scalars
LocksForReversed(x) ==
    CASE x.k = "scalar" -> <<"S">>
      [] x.k = "arr" -> <<"A">>
      [] x.k = "arrsub" -> <<"A", "S">>
\* variant: an array read that locks only the arrays mutex
LocksForArraysOnly(x) ==
    CASE x.k = "scalar" -> <<"S">>
      [] x.k = "arr" -> <<"A">>
      [] x.k = "arrsub" -> <<"A">>
\* variant: a subscript that is a variable is read by a second locking call
LocksForNestedLocked(x) ==
    CASE x.k = "scalar" -> <<"S">>
      [] x.k = "arr" -> <<"A">>
      [] x.k = "arrsub" -> IF x.sub.e = "var" THEN <<"S", "A", "A">>
                           ELSE <<"S", "A">>
\* the mutexes a call of LockedVars::get_variable locks, in order
LocksFor(x) ==
    CASE x.k = "scalar" -> <<"S">>
      [] x.k = "arr" -> <<"A">>
      [] x.k = "arrsub" -> <<"S", "A">>

\* variant: an assignment that locks only the scalars mutex
SetLocksScalarsOnly == <<"S">>
\* variant: an assignment that locks only the arrays mutex
SetLocksArraysOnly == <<"A">>
\* the mutexes LockedVars::set_variable_expression locks, in order
SetLocks == <<"S", "A">>

ReleaseStore(t) == [m \in DOMAIN mutex |->
                      IF m \in {"S", "A"} /\ mutex[m] = t THEN Free ELSE mutex[m]]

(***************************************************************************)
(* The routine runner and the statement interpreter (ast.rs), run by any   *)
(* thread t: the driver thread for BEGIN, END, the root and the            *)
(* single-threaded walk, a worker for the entries of its directories.      *)
(***************************************************************************)
NextRoutine(t, md2) ==
    [th[t] EXCEPT !.pc = "routine", !.ri = @ + 1, !.si = 0, !.reads = <<>>, !.md = md2]

\* begin a call of LockedVars::get_variable for variable x
StartRead(t, x, md2, back) ==
    [th[t] EXCEPT !.pc = "lock", !.want = LocksFor(x), !.op = "get",
                  !.back = back, !.md = md2]

\* run_routines: take the next routine, or return Ok after the last one
RoutineStep(t) ==
    /\ th[t].pc = "routine"
    /\ IF th[t].ri > Len(Units(th[t].unit))
       THEN th' = Upd(t, Return(t, "none"))
       ELSE IF CurRoutine(t).hasCond
            THEN th' = Upd(t, [th[t] EXCEPT !.pc = "cond"])
            ELSE th' = Upd(t, [th[t] EXCEPT !.pc = "stmt", !.si = 1])
    /\ UNCHANGED <<prog, nThreads, rootIsDir, fault, scalars, arrays, mutex,
                   queues, stack, sentinel, out, walk, hist>>

\* a routine's condition, evaluated through the Locked view, then is_truthy
CondStep(t) ==
    /\ th[t].pc = "cond"
    /\ LET r == EvalL(CurRoutine(t).cond, th[t].file, th[t].md, th[t].reads)
           tr == IsTruthy(r.val)
       IN /\ hist' = LogStat(t, r.md)
          /\ th' = Upd(t,
                IF r.st = "need" THEN StartRead(t, r.x, r.md, "cond")
                ELSE IF r.err = "Panic" THEN [th[t] EXCEPT !.pc = "panicked"]
                ELSE IF r.err # "none" THEN Return(t, r.err)
                ELSE IF tr.err # "none" THEN Return(t, tr.err)
                ELSE IF tr.b THEN [th[t] EXCEPT !.pc = "stmt", !.si = 1,
                                                !.reads = <<>>, !.md = r.md]
                ELSE NextRoutine(t, r.md))
    /\ UNCHANGED <<prog, nThreads, rootIsDir, fault, scalars, arrays, mutex,
                   queues, stack, sentinel, out, walk>>

\* Action::interpret and Statement::interpret: dispatch on the next statement
StmtStep(t) ==
    /\ th[t].pc = "stmt"
    /\ LET a == CurRoutine(t).action
       IN IF ~a.has
          THEN \* the default action prints the path of the file, if any
               /\ th' = Upd(t, IF th[t].si = 1 /\ th[t].file # NoFile
                               THEN [th[t] EXCEPT !.pc = "sinkLock",
                                        !.line = PathOf(th[t].file) \o "\n"]
                               ELSE NextRoutine(t, th[t].md))
               /\ hist' = IF th[t].si = 1 /\ th[t].file # NoFile
                          THEN [hist EXCEPT !.prints = @ + 1] ELSE hist
          ELSE IF th[t].si > Len(a.sts)
          THEN /\ th' = Upd(t, NextRoutine(t, th[t].md))
               /\ hist' = hist
          ELSE IF a.sts[th[t].si].st = "assign"
          THEN /\ th' = Upd(t, [th[t] EXCEPT !.pc = "lock", !.want = SetLocks,
                                             !.op = "set"])
               /\ hist' = [hist EXCEPT !.assigns = @ + 1]
          ELSE /\ th' = Upd(t, [th[t] EXCEPT !.pc = "print", !.reads = <<>>])
               /\ hist' = hist
    /\ UNCHANGED <<prog, nThreads, rootIsDir, fault, scalars, arrays, mutex,
                   queues, stack, sentinel, out, walk>>

\* Statement::Print: evaluate the arguments through the Locked view
PrintStep(t) ==
    /\ th[t].pc = "print"
    /\ LET r == EvalArgs(CurStatement(t).args, th[t].file, th[t].md, th[t].reads, <<>>)
       IN /\ hist' = IF r.st = "done" /\ r.err = "none"
                     THEN [LogStat(t, r.md) EXCEPT !.prints = @ + 1]
                     ELSE LogStat(t, r.md)
          /\ th' = Upd(t,
                IF r.st = "need" THEN StartRead(t, r.x, r.md, "print")
                ELSE IF r.err = "Panic" THEN [th[t] EXCEPT !.pc = "panicked"]
                ELSE IF r.err # "none" THEN Return(t, r.err)
                ELSE [th[t] EXCEPT !.pc = "sinkLock", !.reads = <<>>, !.md = r.md,
                                   !.line = FormatLine(r.items)])
    /\ UNCHANGED <<prog, nThreads, rootIsDir, fault, scalars, arrays, mutex,
                   queues, stack, sentinel, out, walk>>

\* Mutex::lock on the next store mutex of the call: blocks while it is held
LockStep(t) ==
    /\ th[t].pc = "lock"
    /\ LET m == Head(th[t].want)
       IN /\ mutex[m] = Free
          /\ mutex' = [mutex EXCEPT ![m] = t]
          /\ th' = Upd(t, [th[t] EXCEPT !.want = Tail(@),
                              !.pc = IF Len(th[t].want) > 1 THEN "lock"
                                     ELSE IF th[t].op = "get" THEN "getCrit"
                                     ELSE "setEval"])
    /\ UNCHANGED <<prog, nThreads, rootIsDir, fault, scalars, arrays,
                   queues, stack, sentinel, out, walk, hist>>

\* the variable the Locked-view evaluation of thread t is reading
NeedVar(t) ==
    IF th[t].back = "cond"
    THEN EvalL(CurRoutine(t).cond, th[t].file, th[t].md, th[t].reads).x
    ELSE EvalArgs(CurStatement(t).args, th[t].file, th[t].md, th[t].reads, <<>>).x

\* LockedVars::get_variable with the mutexes held
GetValue(x, f, md, sc, ar) ==
    CASE x.k = "scalar" -> Ok(VInt(sc[x.id]), md)
      [] x.k = "arr" -> Ok(VStr(ArrayToString(ar[x.id])), md)
      [] x.k = "arrsub" ->
            LET sub == EvalU(x.sub, f, md, sc, ar)
            IN IF sub.err # "none" THEN sub
               ELSE Ok(VInt(Lookup(ar[x.id], sub.val)), sub.md)

\* variant: the guards are kept when the call returns an error
AfterCallLeak(t, err) == IF err = "none" THEN ReleaseStore(t) ELSE mutex
\* the mutexes thread t holds after a call on the store returned with err:
\* the guards are dropped on every return; a panic unwinds and drops them too
AfterCall(t, err) == ReleaseStore(t)

\* variant: the probe of an array read inserts the missing key with 0
GetCritInserting(t) ==
    /\ th[t].pc = "getCrit"
    /\ LET x == NeedVar(t)
           r == GetValue(x, th[t].file, th[t].md, scalars, arrays)
           sub == EvalU(x.sub, th[t].file, th[t].md, scalars, arrays)
       IN /\ hist' = LogStat(t, r.md)
          /\ mutex' = AfterCall(t, r.err)
          /\ arrays' = IF x.k = "arrsub" /\ sub.err = "none"
                           /\ sub.val \notin DOMAIN arrays[x.id]
                        THEN [arrays EXCEPT ![x.id] =
                                 [k \in DOMAIN @ \cup {sub.val} |->
                                     IF k \in DOMAIN @ THEN @[k] ELSE 0]]
                        ELSE arrays
          /\ th' = Upd(t, IF r.err = "Panic" THEN [th[t] EXCEPT !.pc = "panicked"]
                          ELSE [th[t] EXCEPT !.pc = th[t].back, !.md = r.md,
                                   !.reads = Append(@, [err |-> r.err, val |-> r.val])])
    /\ UNCHANGED <<prog, nThreads, rootIsDir, fault, scalars,
                   queues, stack, sentinel, out, walk>>
\* LockedVars::get_variable: the read under the mutexes, then the return
GetCrit(t) ==
    /\ th[t].pc = "getCrit"
    /\ LET r == GetValue(NeedVar(t), th[t].file, th[t].md, scalars, arrays)
       IN /\ hist' = LogStat(t, r.md)
          /\ mutex' = AfterCall(t, r.err)
          /\ th' = Upd(t, IF r.err = "Panic" THEN [th[t] EXCEPT !.pc = "panicked"]
                          ELSE [th[t] EXCEPT !.pc = th[t].back, !.md = r.md,
                                   !.reads = Append(@, [err |-> r.err, val |-> r.val])])
    /\ UNCHANGED <<prog, nThreads, rootIsDir, fault, scalars, arrays,
                   queues, stack, sentinel, out, walk>>

\* variant: the guards are dropped once the right-hand side is evaluated
DuringCallUnlocked(t) == ReleaseStore(t)
\* the guards `scalars` and `arrays` of set_variable_expression live until
\* the function returns: nothing is released after the right-hand side
DuringCall(t) == mutex

\* LockedVars::set_variable_expression, line 166: the right-hand side is
\* evaluated through the Unlocked view with both mutexes held
SetEval(t) ==
    /\ th[t].pc = "setEval"
    /\ LET r == EvalU(CurStatement(t).rhs, th[t].file, th[t].md, scalars, arrays)
       IN /\ hist' = LogStat(t, r.md)
          /\ IF r.err = "none"
             THEN /\ th' = Upd(t, [th[t] EXCEPT !.pc = "setWrite", !.new = r.val,
                                      !.md = r.md,
                                      !.pre = [sc |-> scalars, ar |-> arrays]])
                  /\ mutex' = DuringCall(t)
             ELSE /\ th' = Upd(t, IF r.err = "Panic"
                                  THEN [th[t] EXCEPT !.pc = "panicked"]
                                  ELSE Return(t, r.err))
                  /\ mutex' = AfterCall(t, r.err)
    /\ UNCHANGED <<prog, nThreads, rootIsDir, fault, scalars, arrays,
                   queues, stack, sentinel, out, walk>>

\* LockedVars::set_variable_expression, lines 168-188: the write to the
\* assignee, then the return
SetWrite(t) ==
    /\ th[t].pc = "setWrite"
    /\ LET lhs == CurStatement(t).lhs
           sub == IF lhs.k = "arrsub"
                  THEN EvalU(lhs.sub, th[t].file, th[t].md, scalars, arrays)
                  ELSE Ok(VInt(0), th[t].md)
           err == IF lhs.k = "arr" THEN "Panic"
                  ELSE IF sub.err # "none" THEN sub.err
                  ELSE IF ToIntegerFails(th[t].new) THEN "Runtime"
                  ELSE "none"
           clear == [sc |-> <<>>, ar |-> <<>>]
           done == [th[t] EXCEPT !.pc = "stmt", !.si = @ + 1, !.md = sub.md,
                                 !.new = VInt(0), !.pre = clear]
       IN /\ hist' = LogStat(t, sub.md)
          /\ mutex' = AfterCall(t, err)
          /\ scalars' = IF lhs.k = "scalar" /\ err = "none"
                        THEN [scalars EXCEPT ![lhs.id] = ToInteger(th[t].new)] ELSE scalars
          /\ arrays' = IF lhs.k = "arrsub" /\ err = "none"
                       THEN [arrays EXCEPT ![lhs.id] = SetEntry(@, sub.val, th[t].new)]
                       ELSE arrays
          /\ th' = Upd(t, IF err = "none" THEN done
                          ELSE IF err = "Panic" THEN [th[t] EXCEPT !.pc = "panicked"]
                          ELSE [Return(t, err) EXCEPT !.new = VInt(0), !.pre = clear])
    /\ UNCHANGED <<prog, nThreads, rootIsDir, fault, queues, stack, sentinel,
                   out, walk>>

\* SyncWrite::write: the sink takes its own lock
SinkLock(t) ==
    /\ th[t].pc = "sinkLock"
    /\ mutex.sink = Free
    /\ mutex' = [mutex EXCEPT !.sink = t]
    /\ th' = Upd(t, [th[t] EXCEPT !.pc = "sinkWrite"])
    /\ UNCHANGED <<prog, nThreads, rootIsDir, fault, scalars, arrays,
                   queues, stack, sentinel, out, walk, hist>>

\* variant: the values and the newline are written by two calls of write
SinkWriteTwice(t) ==
    /\ th[t].pc = "sinkWrite"
    /\ out' = Append(Append(out, th[t].line), "\n")
    /\ mutex' = [mutex EXCEPT !.sink = Free]
    /\ th' = Upd(t, [th[t] EXCEPT !.pc = "stmt", !.si = @ + 1, !.line = ""])
    /\ UNCHANGED <<prog, nThreads, rootIsDir, fault, scalars, arrays,
                   queues, stack, sentinel, walk, hist>>
\* SyncWrite::write: the line is appended and the sink's lock released
SinkWrite(t) ==
    /\ th[t].pc = "sinkWrite"
    /\ out' = Append(out, th[t].line)
    /\ mutex' = [mutex EXCEPT !.sink = Free]
    /\ th' = Upd(t, [th[t] EXCEPT !.pc = "stmt", !.si = @ + 1, !.line = ""])
    /\ UNCHANGED <<prog, nThreads, rootIsDir, fault, scalars, arrays,
                   queues, stack, sentinel, walk, hist>>

(***************************************************************************)
(* Program::run (ast.rs) and treewalk (treewalk.rs) on the driver thread   *)
(***************************************************************************)
Me == th[Main]

FailsAt(kind, e) == fault.kind = kind /\ fault.at = e

LogReaddir(t) ==
    [hist EXCEPT !.io = @ \cup {[op |-> "readdir", held |-> Held(t), at |-> th[t].pc]}]

\* driver: the program is compiled (a panic of the analysis pass unwinds
\* out of driver), then Program::run runs BEGIN first
MainBegin ==
    /\ Me.pc = "start"
    /\ IF P.analysis = "Panic"
       THEN /\ th' = Upd(Main, [Me EXCEPT !.pc = "panicked"])
            /\ hist' = hist
       ELSE IF P.begin.some
       THEN /\ th' = Upd(Main, Call(Main, "begin", NoFile, "afterBegin"))
            /\ hist' = [hist EXCEPT !.begins = @ + 1]
       ELSE /\ th' = Upd(Main, [Me EXCEPT !.pc = "afterBegin"])
            /\ hist' = hist
    /\ UNCHANGED <<prog, nThreads, rootIsDir, fault, scalars, arrays, mutex,
                   queues, stack, sentinel, out, walk>>

\* treewalk, line 18: the routines are run on the root
MainRoot ==
    /\ Me.pc = "afterBegin"
    /\ th' = Upd(Main, Call(Main, "file", Root, "afterRoot"))
    /\ hist' = [hist EXCEPT !.ran[Root] = @ + 1]
    /\ UNCHANGED <<prog, nThreads, rootIsDir, fault, scalars, arrays, mutex,
                   queues, stack, sentinel, out, walk>>

\* variant: the result of the routines on the root is not looked at
RootFailedIgnored == FALSE
\* treewalk, line 18: `run_routines(routines, &f, p)?` on the root
RootFailed == Me.res = "Runtime"

\* treewalk, lines 18-23: an error on the root ends the walk; otherwise the
\* walker is chosen by n_threads.  treewalk_multi_threaded, line 92: the
\* root is pushed onto workers[0]
MainAfterRoot ==
    /\ Me.pc = "afterRoot"
    /\ IF RootFailed
       THEN /\ walk' = [walk EXCEPT !.res = "Runtime", !.errAt = Me.errAt]
            /\ th' = Upd(Main, [Me EXCEPT !.pc = "walkDone"])
            /\ UNCHANGED <<stack, queues, hist>>
       ELSE IF ~rootIsDir
       THEN /\ walk' = [walk EXCEPT !.res = "ok"]
            /\ th' = Upd(Main, [Me EXCEPT !.pc = "walkDone"])
            /\ UNCHANGED <<stack, queues, hist>>
       ELSE IF nThreads = 1
       THEN /\ stack' = <<Root>>
            /\ th' = Upd(Main, [Me EXCEPT !.pc = "stPop"])
            /\ hist' = [hist EXCEPT !.pushed[Root] = @ + 1]
            /\ UNCHANGED <<queues, walk>>
       ELSE /\ queues' = [queues EXCEPT ![1] = Append(@, Root)]
            /\ th' = Upd(Main, [Me EXCEPT !.pc = "spawn"])
            /\ hist' = [hist EXCEPT !.pushed[Root] = @ + 1]
            /\ UNCHANGED <<stack, walk>>
    /\ UNCHANGED <<prog, nThreads, rootIsDir, fault, scalars, arrays, mutex,
                   sentinel, out>>

\* treewalk_single_threaded, lines 34-36: pop a path and read the directory;
\* read_dir(path).unwrap() panics when the directory cannot be read
StPop ==
    /\ Me.pc = "stPop"
    /\ IF stack = <<>>
       THEN /\ walk' = [walk EXCEPT !.res = "ok"]
            /\ th' = Upd(Main, [Me EXCEPT !.pc = "walkDone"])
            /\ UNCHANGED <<stack, hist>>
       ELSE LET d == stack[Len(stack)]
            IN /\ stack' = SubSeq(stack, 1, Len(stack) - 1)
               /\ hist' = [LogReaddir(Main) EXCEPT !.taken[d] = @ + 1]
               /\ walk' = walk
               /\ th' = Upd(Main, IF FailsAt("readdir", d)
                                  THEN [Me EXCEPT !.pc = "panicked"]
                                  ELSE [Me EXCEPT !.pc = "stEnt", !.dir = d,
                                                  !.pending = DirList(d)])
    /\ UNCHANGED <<prog, nThreads, rootIsDir, fault, scalars, arrays, mutex,
                   queues, sentinel, out>>

\* treewalk_single_threaded, lines 36-56: the next entry of the directory
StEnt ==
    /\ Me.pc = "stEnt"
    /\ IF Me.pending = <<>>
       THEN /\ th' = Upd(Main, [Me EXCEPT !.pc = "stPop", !.dir = 0])
            /\ UNCHANGED <<stack, hist>>
       ELSE LET ent == Head(Me.pending)
            IN IF FailsAt("entry", ent) \/ FailsAt("filetype", ent)
               THEN /\ th' = Upd(Main, [Me EXCEPT !.pending = Tail(@)])
                    /\ UNCHANGED <<stack, hist>>
               ELSE /\ stack' = IF IsDir(ent) THEN Append(stack, ent) ELSE stack
                    /\ hist' = [hist EXCEPT !.ran[ent] = @ + 1,
                                   !.pushed[ent] = IF IsDir(ent) THEN @ + 1 ELSE @]
                    /\ th' = Upd(Main, [Call(Main, "file", ent, "stAfter")
                                            EXCEPT !.pending = Tail(@)])
    /\ UNCHANGED <<prog, nThreads, rootIsDir, fault, scalars, arrays, mutex,
                   queues, sentinel, out, walk>>

\* variant: the result of run_routines is dropped and the loop goes on
StAfterIgnore ==
    /\ Me.pc = "stAfter"
    /\ th' = Upd(Main, [Me EXCEPT !.pc = "stEnt"])
    /\ UNCHANGED <<prog, nThreads, rootIsDir, fault, scalars, arrays, mutex,
                   queues, stack, sentinel, out, hist, walk>>
\* treewalk_single_threaded, line 56: `run_routines(..)?`
StAfter ==
    /\ Me.pc = "stAfter"
    /\ IF Me.res = "Runtime"
       THEN /\ walk' = [walk EXCEPT !.res = "Runtime", !.errAt = Me.errAt]
            /\ th' = Upd(Main, [Me EXCEPT !.pc = "walkDone", !.pending = <<>>, !.dir = 0])
       ELSE /\ walk' = walk
            /\ th' = Upd(Main, [Me EXCEPT !.pc = "stEnt"])
    /\ UNCHANGED <<prog, nThreads, rootIsDir, fault, scalars, arrays, mutex,
                   queues, stack, sentinel, out, hist>>

\* the worker the next spawn starts: `workers.pop()` takes the last one left
NextWorker == nThreads - walk.spawned

\* variant: every worker is spawned before the first join
SpawnEager == Me.pc \in {"spawn", "join"}
\* whether the driver thread may spawn the next worker: the iterator chain
\* of treewalk_multi_threaded is lazy, so `find` pulls one worker at a time
\* through spawn and then join
SpawnEnabled == Me.pc = "spawn"

\* treewalk_multi_threaded, lines 95-99: spawn one worker
MainSpawn ==
    /\ SpawnEnabled
    /\ walk.spawned < nThreads
    /\ th' = [th EXCEPT ![NextWorker] = [@ EXCEPT !.pc = "top"],
                        ![Main] = [@ EXCEPT !.pc = "join"]]
    /\ walk' = [walk EXCEPT !.spawned = @ + 1]
    /\ UNCHANGED <<prog, nThreads, rootIsDir, fault, scalars, arrays, mutex,
                   queues, stack, sentinel, out, hist>>

\* variant: a join that does not wait for the thread
JoinedNoWait(w) == TRUE
\* JoinHandle::join returns once the thread has finished, by a return of
\* worker_main or by a panic
Joined(w) == th[w].pc \in {"exited", "panicked"}

\* treewalk_multi_threaded, lines 101-104: join the worker just spawned;
\* `join().unwrap()` panics when the worker panicked; the first Err ends the
\* iteration, Ok(()) when no worker returned Err
MainJoin ==
    /\ Me.pc = "join"
    /\ LET w == NextWorker + 1
       IN /\ Joined(w)
          /\ IF th[w].pc = "panicked"
             THEN /\ walk' = walk
                  /\ th' = Upd(Main, [Me EXCEPT !.pc = "panicked"])
             ELSE IF th[w].res = "Runtime"
             THEN /\ walk' = [walk EXCEPT !.res = "Runtime", !.errAt = th[w].errAt]
                  /\ th' = Upd(Main, [Me EXCEPT !.pc = "walkDone"])
             ELSE IF walk.spawned = nThreads
             THEN /\ walk' = [walk EXCEPT !.res = "ok"]
                  /\ th' = Upd(Main, [Me EXCEPT !.pc = "walkDone"])
             ELSE /\ walk' = walk
                  /\ th' = Upd(Main, [Me EXCEPT !.pc = "spawn"])
    /\ UNCHANGED <<prog, nThreads, rootIsDir, fault, scalars, arrays, mutex,
                   queues, stack, sentinel, out, hist>>

\* variant: END is skipped when the walk returned an error
MainEndOnOk ==
    /\ Me.pc = "walkDone"
    /\ IF P.end.some /\ walk.res = "ok"
       THEN /\ th' = Upd(Main, Call(Main, "end", NoFile, "endDone"))
            /\ hist' = [hist EXCEPT !.ends = @ + 1]
       ELSE /\ th' = Upd(Main, [Me EXCEPT !.pc = "endDone"])
            /\ hist' = hist
    /\ UNCHANGED <<prog, nThreads, rootIsDir, fault, scalars, arrays, mutex,
                   queues, stack, sentinel, out, walk>>
\* Program::run: END after the walk
MainEnd ==
    /\ Me.pc = "walkDone"
    /\ IF P.end.some
       THEN /\ th' = Upd(Main, Call(Main, "end", NoFile, "endDone"))
            /\ hist' = [hist EXCEPT !.ends = @ + 1]
       ELSE /\ th' = Upd(Main, [Me EXCEPT !.pc = "endDone"])
            /\ hist' = hist
    /\ UNCHANGED <<prog, nThreads, rootIsDir, fault, scalars, arrays, mutex,
                   queues, stack, sentinel, out, walk>>

\* what Program::run returns for the walk's result: the walk's runtime error
\* is passed on, otherwise Ok
RunResult(res, at) == IF res = "Runtime" THEN RuntimeErrorAt(at) ELSE NoError

\* driver, line 31: `Ok(prog.run(args)?)` returns what run returned
MainReturn ==
    /\ Me.pc = "endDone"
    /\ walk' = [walk EXCEPT !.driver = RunResult(walk.res, walk.errAt)]
    /\ th' = Upd(Main, [Me EXCEPT !.pc = "finished"])
    /\ UNCHANGED <<prog, nThreads, rootIsDir, fault, scalars, arrays, mutex,
                   queues, stack, sentinel, out, hist>>

(***************************************************************************)
(* The workers of treewalk_multi_threaded (treewalk.rs)                    *)
(***************************************************************************)
\* worker_main, lines 113-115: leave the loop when an error has been recorded
WorkerTop(w) ==
    /\ th[w].pc = "top"
    /\ th' = Upd(w, IF sentinel # NoError
                    THEN [th[w] EXCEPT !.pc = "exited", !.res = "ok"]
                    ELSE [th[w] EXCEPT !.pc = "pop"])
    /\ UNCHANGED <<prog, nThreads, rootIsDir, fault, scalars, arrays, mutex,
                   queues, stack, sentinel, out, walk, hist>>

\* variant: the worker's own queue is not tried
LocalNeverTried(w) == FALSE
\* find_task, line 129: `if let Some(task) = local.pop()`
LocalHasTask(w) == queues[w] # <<>>

\* find_task, lines 129-131: pop from the worker's own FIFO queue
WorkerPop(w) ==
    /\ th[w].pc = "pop"
    /\ IF LocalHasTask(w)
       THEN /\ queues' = [queues EXCEPT ![w] = Tail(@)]
            /\ th' = Upd(w, [th[w] EXCEPT !.pc = "open", !.dir = Head(queues[w])])
            /\ hist' = [hist EXCEPT !.taken[Head(queues[w])] = @ + 1]
       ELSE /\ th' = Upd(w, [th[w] EXCEPT !.pc = "steal", !.stealIdx = 1])
            /\ UNCHANGED <<queues, hist>>
    /\ UNCHANGED <<prog, nThreads, rootIsDir, fault, scalars, arrays, mutex,
                   stack, sentinel, out, walk>>

\* variant: a worker that found no task starts its loop again
AfterNoTaskRetry(w) == [th[w] EXCEPT !.pc = "top", !.stealIdx = 0]
\* worker_main, lines 120-121: `None => break`, then Ok(()); a worker that
\* found no task leaves its loop
AfterNoTask(w) == [th[w] EXCEPT !.pc = "exited", !.res = "ok", !.stealIdx = 0]

\* find_task, lines 133-142: try the stealers in index order; worker_main,
\* line 121: no task found ends the worker
WorkerSteal(w) ==
    /\ th[w].pc = "steal"
    /\ LET i == th[w].stealIdx
       IN IF i > nThreads
          THEN /\ th' = Upd(w, AfterNoTask(w))
               /\ UNCHANGED <<queues, hist>>
          ELSE IF queues[i] # <<>>
          THEN /\ queues' = [queues EXCEPT ![i] = Tail(@)]
               /\ th' = Upd(w, [th[w] EXCEPT !.pc = "open", !.dir = Head(queues[i]),
                                             !.stealIdx = 0])
               /\ hist' = [hist EXCEPT !.taken[Head(queues[i])] = @ + 1]
          ELSE /\ th' = Upd(w, [th[w] EXCEPT !.stealIdx = @ + 1])
               /\ UNCHANGED <<queues, hist>>
    /\ UNCHANGED <<prog, nThreads, rootIsDir, fault, scalars, arrays, mutex,
                   stack, sentinel, out, walk>>

\* process_directory, lines 150-152: a directory that cannot be read is skipped
WorkerOpen(w) ==
    /\ th[w].pc = "open"
    /\ hist' = LogReaddir(w)
    /\ th' = Upd(w, IF FailsAt("readdir", th[w].dir)
                    THEN [th[w] EXCEPT !.pc = "top", !.dir = 0]
                    ELSE [th[w] EXCEPT !.pc = "ent", !.pending = DirList(th[w].dir)])
    /\ UNCHANGED <<prog, nThreads, rootIsDir, fault, scalars, arrays, mutex,
                   queues, stack, sentinel, out, walk>>

\* process_directory, lines 154-167: the next entry; routines are run on it
WorkerEnt(w) ==
    /\ th[w].pc = "ent"
    /\ IF th[w].pending = <<>>
       THEN /\ th' = Upd(w, [th[w] EXCEPT !.pc = "top", !.dir = 0])
            /\ hist' = hist
       ELSE LET ent == Head(th[w].pending)
            IN IF FailsAt("entry", ent)
               THEN /\ th' = Upd(w, [th[w] EXCEPT !.pending = Tail(@)])
                    /\ hist' = hist
               ELSE /\ th' = Upd(w, Call(w, "file", ent, "afterRoutines"))
                    /\ hist' = [hist EXCEPT !.ran[ent] = @ + 1]
    /\ UNCHANGED <<prog, nThreads, rootIsDir, fault, scalars, arrays, mutex,
                   queues, stack, sentinel, out, walk>>

\* variant: the directory test inverted
ShouldPushInverted(ent) == ~IsDir(ent) /\ ~FailsAt("filetype", ent)
\* process_directory, lines 169-175: an entry is pushed when its file type
\* can be read and is a directory
ShouldPush(ent) == IsDir(ent) /\ ~FailsAt("filetype", ent)

\* process_directory, lines 167-176: `run_routines(..)?`, then a directory
\* is pushed onto the worker's own queue
WorkerAfter(w) ==
    /\ th[w].pc = "afterRoutines"
    /\ LET ent == Head(th[w].pending)
       IN IF th[w].res = "Runtime"
          THEN /\ th' = Upd(w, [th[w] EXCEPT !.pc = "setErr", !.pending = <<>>, !.dir = 0])
               /\ UNCHANGED <<queues, hist>>
          ELSE /\ th' = Upd(w, [th[w] EXCEPT !.pc = "ent", !.pending = Tail(@)])
               /\ IF ShouldPush(ent)
                  THEN /\ queues' = [queues EXCEPT ![w] = Append(@, ent)]
                       /\ hist' = [hist EXCEPT !.pushed[ent] = @ + 1]
                  ELSE UNCHANGED <<queues, hist>>
    /\ UNCHANGED <<prog, nThreads, rootIsDir, fault, scalars, arrays, mutex,
                   stack, sentinel, out, walk>>

\* ProgramState::set_runtime_error: only the first error is kept
SetRuntimeError(cell, err) == IF cell = NoError THEN err ELSE cell

\* variant: the worker returns its error without recording it
WorkerSetErrNoRecord(w) ==
    /\ th[w].pc = "setErr"
    /\ th' = Upd(w, [th[w] EXCEPT !.pc = "exited"])
    /\ UNCHANGED <<prog, nThreads, rootIsDir, fault, scalars, arrays, mutex,
                   queues, stack, sentinel, out, walk, hist>>
\* worker_main, lines 118-119: record the error and return it
WorkerSetErr(w) ==
    /\ th[w].pc = "setErr"
    /\ sentinel' = SetRuntimeError(sentinel, RuntimeErrorAt(th[w].errAt))
    /\ th' = Upd(w, [th[w] EXCEPT !.pc = "exited"])
    /\ UNCHANGED <<prog, nThreads, rootIsDir, fault, scalars, arrays, mutex,
                   queues, stack, out, walk, hist>>

(***************************************************************************)
(* Specification                                                           *)
(***************************************************************************)
Runner(t) ==
    \/ RoutineStep(t) \/ CondStep(t) \/ StmtStep(t) \/ PrintStep(t)
    \/ LockStep(t) \/ GetCrit(t) \/ SetEval(t) \/ SetWrite(t)
    \/ SinkLock(t) \/ SinkWrite(t)

MainStep ==
    \/ MainBegin \/ MainRoot \/ MainAfterRoot \/ StPop \/ StEnt \/ StAfter
    \/ MainSpawn \/ MainJoin \/ MainEnd \/ MainReturn

Worker(w) ==
    \/ WorkerTop(w) \/ WorkerPop(w) \/ WorkerSteal(w) \/ WorkerOpen(w)
    \/ WorkerEnt(w) \/ WorkerAfter(w) \/ WorkerSetErr(w)

Next ==
    \/ MainStep
    \/ \E t \in Threads : Runner(t)
    \/ \E w \in WorkerIds : Worker(w)

Spec == Init /\ [][Next]_vars

\* the steps of one thread: the driver thread, or a worker spawned by
\* std::thread::scope
ThreadStep(t) == IF t = Main THEN MainStep \/ Runner(Main)
                 ELSE Worker(t) \/ Runner(t)
\* the programs the walk is run with under fair scheduling: one that
\* succeeds, one that raises a runtime error during the walk, one with BEGIN
\* and END, one that panics in a worker and one that uses an array
FairInit ==
    Init /\ P \in {CounterProg, OwnerErrorProg, BeginAttrProg, DivideProg, SubscriptProg}
\* every thread is an OS thread: one that can take a step is scheduled
FairSpec ==
    FairInit /\ [][Next]_vars /\ \A t \in Threads : WF_vars(ThreadStep(t))

(***************************************************************************)
(* Properties                                                              *)
(***************************************************************************)
StoreMutexes == {"S", "A"}
HoldsStore(t) == mutex.S = t /\ mutex.A = t

\* thread t is inside an assignment statement (set_variable_expression)
InAssignment(t) ==
    \/ th[t].pc = "lock" /\ th[t].op = "set"
    \/ th[t].pc \in {"setEval", "setWrite"}

\* the driver thread is past the walk
WalkReturned == walk.res # "none"
DriverReturned == Me.pc = "finished"

RECURSIVE SumOver(_, _)
SumOver(f, S) ==
    IF S = {} THEN 0
    ELSE LET x == CHOOSE y \in S : TRUE IN f[x] + SumOver(f, S \ {x})

\* the number of run_routines calls made so far
RoutineRuns == SumOver(hist.ran, Entries)

\* C1: with N >= 2 workers running `v += 1`, no increment is lost: v counts
\* the assignments executed (those still in progress have not yet written),
\* and a thread between the read of v and its write holds both store mutexes
C1_NoLostIncrement ==
    (P = CounterProg /\ nThreads >= 2) =>
        /\ scalars[1] + Cardinality({t \in Threads : InAssignment(t)}) = hist.assigns
        /\ \A t \in Threads : th[t].pc \in {"setEval", "setWrite"} => HoldsStore(t)
        /\ WalkReturned => scalars[1] = hist.assigns

C1_Witness ==
    /\ P = CounterProg /\ nThreads >= 2 /\ WalkReturned
    /\ walk.spawned = nThreads
    /\ \A w \in 1..nThreads : th[w].pc = "exited"
    /\ hist.assigns >= 3 /\ scalars[1] = hist.assigns

\* the entries that exist: a root that is a file has nothing below it
Existing == IF rootIsDir THEN Entries ELSE {Root}

WalkFaults == {"readdir", "entry", "filetype"}

C3_Original ==
    (P = CounterProg /\ DriverReturned) =>
        out = <<ToString(RoutineRuns - hist.ran[Root]) \o "\n">>

\* C3 amended: END of the counter program prints the number of entries the
\* routines ran on, the root included: one more than the number of non-root
\* entries visited; in a run without failures that is every entry of the tree
C3_CountsRootToo ==
    (P = CounterProg /\ DriverReturned) =>
        /\ out = <<ToString(RoutineRuns) \o "\n">>
        /\ hist.ran[Root] = 1
        /\ (rootIsDir /\ fault = NoFault) => out = <<ToString(Cardinality(Entries)) \o "\n">>

C3_Witness ==
    /\ P = CounterProg /\ DriverReturned /\ rootIsDir /\ fault = NoFault
    /\ nThreads >= 2
    /\ out = <<ToString(Cardinality(Entries)) \o "\n">>

\* the store an assignment must leave, computed from the store `pre` that
\* its right-hand side was evaluated on
ExpectedStore(t) ==
    LET st == CurStatement(t)
        pre == th[t].pre
        rv == EvalU(st.rhs, th[t].file, th[t].md, pre.sc, pre.ar)
        sub == IF st.lhs.k = "arrsub"
               THEN EvalU(st.lhs.sub, th[t].file, th[t].md, pre.sc, pre.ar)
               ELSE Ok(VInt(0), th[t].md)
    IN IF IsSpecial(rv.val)
       THEN pre
       ELSE IF st.lhs.k = "scalar"
       THEN [sc |-> [pre.sc EXCEPT ![st.lhs.id] = ToInteger(rv.val)], ar |-> pre.ar]
       ELSE IF st.lhs.k = "arrsub" /\ sub.err = "none"
       THEN [sc |-> pre.sc,
             ar |-> [pre.ar EXCEPT ![st.lhs.id] = SetEntry(@, sub.val, rv.val)]]
       ELSE pre

\* C4: between the reads of an assignment's right-hand side and its write
\* the thread holds both store mutexes and the store is the one that was
\* read; the write leaves the store that results from evaluating the
\* right-hand side and the destination subscript on that pre-write store
C4_AssignmentIsolation ==
    [][\A t \in Threads : th[t].pc = "setWrite" =>
          /\ HoldsStore(t)
          /\ th[t].pre = [sc |-> scalars, ar |-> arrays]
          /\ th'[t].pc # "setWrite" =>
                [sc |-> scalars', ar |-> arrays'] = ExpectedStore(t)]_vars

C4_Witness ==
    \E w \in WorkerIds :
        /\ P = ArraysProg /\ th[w].pc = "setWrite" /\ th[w].si = 3
        /\ th[w].new = VInt(3)
        /\ Lookup(arrays[1], VInt(1)) = 1

\* C5: BEGIN and END are each started at most once, only when present, and
\* when the driver returns each one that is present has run exactly once,
\* whatever the thread count; BEGIN has run before the walk
C5_BeginEndOnce ==
    /\ hist.begins <= 1 /\ hist.ends <= 1
    /\ hist.begins = 1 => P.begin.some
    /\ hist.ends = 1 => P.end.some
    /\ (RoutineRuns > 0 /\ P.begin.some) => hist.begins = 1
    /\ DriverReturned =>
          /\ P.begin.some => hist.begins = 1
          /\ P.end.some => hist.ends = 1

C5_Witness ==
    /\ DriverReturned /\ P.begin.some /\ P.end.some
    /\ hist.begins = 1 /\ hist.ends = 1
    /\ nThreads >= 2 /\ rootIsDir /\ walk.spawned = nThreads

BeginFinished == Me.pc # "start" /\ Me.unit # "begin"
EndStarted == hist.ends > 0 \/ DriverReturned
WorkerActive(w) == th[w].pc \notin {"idle", "exited", "panicked"}

\* C6: routines run on a file only after BEGIN has finished; a worker runs
\* only while the driver thread waits in join; once END has started the walk
\* has returned, every worker has exited, no routine is running on a file
\* and no worker holds a store mutex
C6_BeginWalkEnd ==
    /\ (\E t \in Threads : th[t].unit = "file") => BeginFinished
    /\ RoutineRuns > 0 => BeginFinished
    /\ (\E w \in WorkerIds : WorkerActive(w)) => Me.pc = "join"
    /\ EndStarted =>
          /\ WalkReturned
          /\ \A w \in WorkerIds : ~WorkerActive(w) /\ Held(w) = {}
          /\ \A t \in Threads : th[t].unit # "file"

C6_Witness ==
    /\ Me.unit = "end" /\ Me.pc = "sinkLock"
    /\ nThreads >= 2 /\ walk.spawned = nThreads
    /\ \A w \in 1..nThreads : th[w].pc = "exited"
    /\ RoutineRuns > 1

\* what thread t is blocked on, if anything
WaitsFor(t) ==
    IF th[t].pc = "lock" THEN Head(th[t].want)
    ELSE IF th[t].pc = "sinkLock" THEN "sink"
    ELSE "nothing"
WaitEdge(t, u) ==
    /\ WaitsFor(t) # "nothing"
    /\ mutex[WaitsFor(t)] = u

\* C7: no set of threads waits on each other cyclically; a thread waiting
\* for the scalars mutex does not hold the arrays mutex; a thread holding
\* the sink's lock waits for nothing and a thread waiting for a store mutex
\* does not hold the sink's lock; a run that has not ended can take a step
C7_DeadlockFree ==
    /\ ~\E S \in SUBSET Threads :
          S # {} /\ \A t \in S : \E u \in S : WaitEdge(t, u)
    /\ \A t \in Threads :
          /\ (th[t].pc = "lock" /\ Head(th[t].want) = "S") => mutex.A # t
          /\ mutex.sink = t => th[t].pc = "sinkWrite"
          /\ th[t].pc = "lock" => mutex.sink # t
    /\ Me.pc \notin {"finished", "panicked"} => ENABLED Next

C7_Witness ==
    \E w \in WorkerIds :
        /\ nThreads >= 2
        /\ th[w].pc = "lock" /\ th[w].op = "get"
        /\ mutex.S = w /\ Head(th[w].want) = "A"

\* C8 as stated: no stat and no readdir is performed while the calling
\* thread holds a store mutex
C8_Original ==
    \A io \in hist.io : io.held \cap StoreMutexes = {}

\* C8 amended: no readdir is performed under a store mutex, and the stat of
\* an attribute met directly in a condition or a print argument is performed
\* under none; the stat of an attribute evaluated inside a store call (an
\* assignment's right-hand side or destination subscript, an array read's
\* subscript) is performed with both store mutexes held
C8_IoAndStoreMutexes ==
    \A io \in hist.io :
        /\ "sink" \notin io.held
        /\ io.op = "readdir" => io.held = {}
        /\ (io.op = "stat" /\ io.at \in {"cond", "print"}) => io.held = {}
        /\ (io.op = "stat" /\ io.at \notin {"cond", "print"}) =>
              io.at \in {"getCrit", "setEval", "setWrite"} /\ io.held = StoreMutexes

C8_Witness ==
    /\ nThreads >= 2
    /\ [op |-> "stat", held |-> StoreMutexes, at |-> "setEval"] \in hist.io
    /\ \E w \in WorkerIds : th[w].pc = "setWrite" /\ P = SumSizeProg

\* C9: a thread holds a store mutex only inside one call of get_variable or
\* set_variable_expression: none is held at the sink's write, between two
\* statements, between a condition and its action, or anywhere in the
\* walkers, also after a call returned an error
C9_MutexOnlyInsideCall ==
    \A t \in Threads :
        Held(t) \cap StoreMutexes # {} =>
            th[t].pc \in {"lock", "getCrit", "setEval", "setWrite"}

C9_Witness ==
    \E w \in WorkerIds :
        /\ th[w].pc = "afterRoutines" /\ th[w].raw = "IoError"
        /\ P = SumSizeProg
        /\ Held(w) = {}

WorkerRaised == \E w \in WorkerIds : th[w].res = "Runtime"
WalkError == [err |-> walk.res, at |-> walk.errAt]

\* C11: in parallel mode, when a worker's routines raised a runtime error
\* the walk returns Err, and the error returned is the one held by the
\* one-shot cell, which holds an error exactly when a worker raised one
C11_WalkReturnsFirstError ==
    /\ sentinel # NoError => sentinel.err = "Runtime" /\ WorkerRaised
    /\ (nThreads >= 2 /\ WalkReturned /\ WorkerRaised) =>
          /\ walk.res = "Runtime"
          /\ WalkError = sentinel

C11_Witness ==
    /\ nThreads >= 2 /\ WalkReturned /\ WorkerRaised
    /\ sentinel = RuntimeErrorAt(3) /\ WalkError = sentinel
    /\ hist.ran[2] = 1

\* C12 as stated: in single-threaded mode a runtime error raised on an
\* entry below the root does not abort the walk: every entry is still visited
C12_Original ==
    (nThreads = 1 /\ rootIsDir /\ fault = NoFault /\ WalkReturned
        /\ walk.errAt # Root) =>
        \A e \in Entries : hist.ran[e] = 1

\* C12 amended: in single-threaded mode a runtime error raised by the
\* routines on an entry ends the walk at once: the walk returns that error
\* and the routines run on no further entry; any other outcome of the
\* routines lets the walk go on
C12_SingleThreadedAborts ==
    [][nThreads = 1 =>
          /\ (Me.pc = "stAfter" /\ Me.res = "Runtime") =>
                walk'.res = "Runtime" /\ walk'.errAt = Me.errAt
          /\ (Me.pc = "stAfter" /\ Me.res # "Runtime") =>
                walk' = walk /\ th'[Main].pc = "stEnt"
          /\ walk.res = "Runtime" => hist'.ran = hist.ran]_vars

C12_Witness ==
    /\ nThreads = 1 /\ rootIsDir /\ fault = NoFault /\ WalkReturned
    /\ walk.res = "Runtime" /\ walk.errAt = 3
    /\ hist.ran[2] = 1 /\ hist.ran[4] = 0 /\ hist.ran[5] = 0

\* C13: a runtime error raised by the routines on the path given to driver
\* ends the walk with that error, for every thread count; the walk's error is
\* never replaced, and driver returns it
C13_RootErrorReturned ==
    [][/\ (Me.pc = "afterRoot" /\ Me.raw = "Runtime") =>
             walk'.res = "Runtime" /\ walk'.errAt = Root
       /\ walk.res = "Runtime" => walk'.res = "Runtime" /\ walk'.errAt = walk.errAt
       /\ (th'[Main].pc = "finished" /\ walk'.errAt = Root) =>
             walk'.driver = RuntimeErrorAt(Root)]_vars

C13_Witness ==
    /\ nThreads = 1 /\ ~rootIsDir /\ DriverReturned /\ P = SpecialArithProg
    /\ walk.driver = RuntimeErrorAt(Root)
    /\ hist.ran[Root] = 1

\* the places where a walker looks at the result of run_routines on a file
AtWalker(t) == th[t].pc \in {"afterRoot", "stAfter", "afterRoutines"}

C15_ReaddirFailureSkipped ==
    fault.kind = "readdir" =>
        /\ Me.pc # "panicked"
        /\ (WalkReturned /\ walk.res = "ok") =>
              \A e \in Entries : fault.at \notin Ancestors(e) => hist.ran[e] = 1

Printing(t) == th[t].pc \in {"sinkLock", "sinkWrite"}

\* C16: every executed print statement makes exactly one write of its whole
\* line: the sink holds one element per print that has written and nothing
\* else; a thread writes only while it holds the sink's lock, so at most one
\* thread is inside write and a line is appended as one piece
C16_OneWritePerLine ==
    [][/\ Len(out) + Cardinality({t \in Threads : Printing(t)}) = hist.prints
       /\ Cardinality({t \in Threads : th[t].pc = "sinkWrite"}) <= 1
       /\ \A t \in Threads : th[t].pc = "sinkWrite" => mutex.sink = t
       /\ out' # out =>
             \E t \in Threads :
                /\ th[t].pc = "sinkWrite" /\ th[t].line # ""
                /\ out' = Append(out, th[t].line)]_vars

C16_Witness ==
    \E w \in WorkerIds :
        /\ nThreads >= 2 /\ th[w].pc = "sinkWrite" /\ mutex.sink = w
        /\ Len(out) >= 1 /\ P = SubscriptProg

\* the subscript of the array element thread t is reading
ReadSubscript(t) ==
    EvalU(NeedVar(t).sub, th[t].file, th[t].md, scalars, arrays)
ReadsMissingKey(t) ==
    /\ th[t].pc = "getCrit" /\ NeedVar(t).k = "arrsub"
    /\ ReadSubscript(t).err = "none"
    /\ ReadSubscript(t).val \notin DOMAIN arrays[NeedVar(t).id]

\* C17: a read of a variable leaves the scalars and the arrays as they
\* were, and the read of an array element whose key is not in the array
\* yields the integer 0 without inserting the key
C17_MissingKeyReadsZero ==
    [][\A t \in Threads :
          (th[t].pc = "getCrit" /\ th'[t].pc # "getCrit") =>
             /\ arrays' = arrays /\ scalars' = scalars
             /\ ReadsMissingKey(t) =>
                   th'[t].reads =
                      Append(th[t].reads, [err |-> "none", val |-> VInt(0)])]_vars

C17_Witness ==
    /\ P = ArraysProg /\ Me.unit = "end" /\ Me.pc = "print"
    /\ Me.reads = <<[err |-> "none", val |-> VInt(0)]>>
    /\ DOMAIN arrays[2] = {VInt(1)}

\* the subscript values the key properties range over
KeyUniverse == {VInt(7), VInt(2), VStr("7"), VBool(TRUE), VSpecial("uid", 7),
                VSpecial("ino", 7)}
EqDefined(k1, k2) == BinaryOp("==", k1, k2).err = "none"
EqTrue(k1, k2) == BinaryOp("==", k1, k2) = [err |-> "none", val |-> VBool(TRUE)]
\* the subscript of the array element thread t is about to write
WriteSubscript(t) ==
    EvalU(CurStatement(t).lhs.sub, th[t].file, th[t].md, scalars, arrays)
WritesElement(t) ==
    /\ th[t].pc = "setWrite" /\ CurStatement(t).lhs.k = "arrsub"
    /\ WriteSubscript(t).err = "none"

\* C18 as stated: a write to A[K1] sets the entry read at A[K2] exactly when
\* the language's K1 == K2 is defined and true, so a write under a special
\* value also sets the entry of the integer of equal magnitude
C18_Original ==
    [][\A t \in Threads : (WritesElement(t) /\ th'[t].pc # "setWrite") =>
          LET id == CurStatement(t).lhs.id
              k1 == WriteSubscript(t).val
          IN \A k2 \in KeyUniverse : EqDefined(k1, k2) =>
                Lookup(arrays'[id], k2) =
                    IF EqTrue(k1, k2) THEN ToInteger(th[t].new)
                    ELSE Lookup(arrays[id], k2)]_vars

\* C18 (amended): array keys are compared structurally (kind and payload):
\* a write to A[K1] sets the entry read at A[K2] exactly when K1 and K2 are
\* the same value of the same kind, and leaves every other entry as it was;
\* a special value and the integer of equal magnitude are distinct keys.  A
\* read of A[K2] returns the entry stored under exactly K2.
C18_KeysAreStructural ==
    [][\A t \in Threads :
          /\ (WritesElement(t) /\ th'[t].pc # "setWrite") =>
                LET id == CurStatement(t).lhs.id
                    k1 == WriteSubscript(t).val
                IN \A k2 \in KeyUniverse \cup DOMAIN arrays[id] :
                      Lookup(arrays'[id], k2) =
                          IF k1 = k2 THEN ToInteger(th[t].new)
                          ELSE Lookup(arrays[id], k2)
          /\ (th[t].pc = "getCrit" /\ th'[t].pc # "getCrit"
                 /\ NeedVar(t).k = "arrsub" /\ ReadSubscript(t).err = "none") =>
                LET m == arrays[NeedVar(t).id]
                    k2 == ReadSubscript(t).val
                IN th'[t].reads = Append(th[t].reads,
                      [err |-> "none",
                       val |-> VInt(IF k2 \in DOMAIN m THEN m[k2] ELSE 0)])]_vars

C18_Witness ==
    \E t \in Threads :
        /\ P = KeysProg /\ th[t].pc = "sinkWrite" /\ th[t].line = "0 3 2\n"
        /\ DOMAIN arrays[1] = {VSpecial("uid", 7), VStr("7")}

ToArrayName(st) == st.st = "assign" /\ st.lhs.k = "arr"
AssignsArrayName(p) ==
    \/ \E i \in DOMAIN p.begin.action.sts : ToArrayName(p.begin.action.sts[i])
    \/ \E r \in DOMAIN p.routines : \E i \in DOMAIN p.routines[r].action.sts :
          ToArrayName(p.routines[r].action.sts[i])
    \/ \E i \in DOMAIN p.end.action.sts : ToArrayName(p.end.action.sts[i])

\* C19: a program that assigns to an array name without a subscript ends
\* with an error outcome and never with an abort of a thread, and the
\* assignment leaves every scalar and every array as it was
C19_ArrayNameAssignIsError ==
    (P \in Compiled /\ AssignsArrayName(P)) =>
        /\ \A t \in Threads : th[t].pc # "panicked"
        /\ DriverReturned => walk.driver # NoError
        /\ scalars = [i \in 1..P.numScalars |-> 0]
        /\ arrays = [i \in 1..P.numArrays |-> EmptyMap]

\* the orders in which the keys K can each be listed exactly once
KeyOrders(K) ==
    {ks \in [1..Cardinality(K) -> K] :
        \A i, j \in 1..Cardinality(K) : ks[i] = ks[j] => i = j}
ItemOf(m, k) == Display(k) \o ": " \o ToString(m[k])
RECURSIVE ItemLines(_, _, _)
ItemLines(m, ks, i) ==
    IF i > Len(ks) THEN ""
    ELSE IF i = Len(ks) THEN ItemOf(m, ks[i])
    ELSE ItemOf(m, ks[i]) \o "\n" \o ItemLines(m, ks, i + 1)
\* the serializations of map m: one `key: value` item for each key, in some
\* order, separated by newlines
Serializations(m) == {ItemLines(m, ks, 1) : ks \in KeyOrders(DOMAIN m)}
\* the entries counted under the size sz by the routines that ran
CountedOfSize(sz) ==
    Cardinality({e \in Entries : /\ hist.ran[e] > 0 /\ ~StatFails(e)
                                 /\ AttrValue("size", e) = VInt(sz)})
FinalCounts ==
    LET ones == CountedOfSize(1)
        twos == CountedOfSize(2)
        K == (IF ones > 0 THEN {VStr("one")} ELSE {})
                \cup (IF twos > 0 THEN {VStr("two")} ELSE {})
    IN [k \in K |-> IF k = VStr("one") THEN ones ELSE twos]

\* C20: a read of an array name returns a string made of exactly one
\* `key: value` item for each key the array holds at the read, separated by
\* newlines (the empty string for an array without keys), and stores
\* nothing; once the walk is over, END's `print arr` of the counting program
\* shows for each key the number of files counted under it
C20_ArrayNameSerialization ==
    [][/\ \A t \in Threads :
            (th[t].pc = "getCrit" /\ th'[t].pc # "getCrit" /\ NeedVar(t).k = "arr") =>
               /\ \E str \in Serializations(arrays[NeedVar(t).id]) :
                     th'[t].reads = Append(th[t].reads,
                                           [err |-> "none", val |-> VStr(str)])
               /\ arrays' = arrays
       /\ (P = CountFilesArraysProg /\ Me.unit = "end" /\ Me.pc = "sinkWrite") =>
               /\ arrays[1] = FinalCounts
               /\ \E str \in Serializations(FinalCounts) : Me.line = str \o "\n"]_vars

C20_Witness ==
    /\ P = CountFilesArraysProg /\ nThreads >= 2
    /\ Me.unit = "end" /\ Me.pc = "sinkWrite"
    /\ DOMAIN arrays[1] = {VStr("one"), VStr("two")}
    /\ arrays[1][VStr("one")] = 2 /\ arrays[1][VStr("two")] = 1
    /\ Me.line \in {"one: 2\ntwo: 1\n", "two: 1\none: 2\n"}

\* the same read on an array without keys: the empty string
C20_WitnessEmpty ==
    /\ P = CountFilesArraysProg /\ ~rootIsDir
    /\ Me.unit = "end" /\ Me.pc = "sinkWrite"
    /\ arrays[1] = EmptyMap /\ Me.line = "\n"

\* C21: a division whose divisor coerces to 0 gives an error outcome for the
\* file and never aborts a thread: no run of the dividing program has a
\* panicked thread
C21_DivideByZeroIsError ==
    P = DivideProg => \A t \in Threads : th[t].pc # "panicked"

PlainValues == {VInt(0), VInt(7), VStr("n1"), VBool(TRUE)}
SpecialValues == {VSpecial(k, 7) : k \in SpecialKinds}
\* the files on which thread-independent evaluation of a special attribute
\* succeeds: the routines ran on them and their stat did not fail
RanWithMetadata == {e \in Entries : hist.ran[e] > 0 /\ ~StatFails(e)}
SpecialPrograms == {SpecialArithProg, SpecialStoreProg, SpecialScalarProg}

\* C22: an arithmetic or ordering operator with a special operand is a
\* runtime error; an assignment whose value is special raises the runtime
\* error and writes nothing; a run in which that happened returns the
\* runtime error from the driver, with nothing printed and nothing stored
C22_SpecialNeverInteger ==
    [][/\ \A op \in ArithOps \cup OrderOps :
             \A sp \in SpecialValues : \A v \in PlainValues \cup SpecialValues :
                /\ BinaryOp(op, sp, v).err = "Runtime"
                /\ BinaryOp(op, v, sp).err = "Runtime"
       /\ \A t \in Threads :
             (th[t].pc = "setWrite" /\ IsSpecial(th[t].new) /\ th'[t].pc # "setWrite"
                 /\ th'[t].pc # "panicked") =>
                /\ th'[t].raw = "Runtime"
                /\ scalars' = scalars /\ arrays' = arrays
       /\ (P \in SpecialPrograms /\ DriverReturned /\ RanWithMetadata # {}) =>
             /\ walk.driver.err = "Runtime"
             /\ walk.driver.at \in RanWithMetadata
             /\ \A i \in DOMAIN scalars : scalars[i] = 0
             /\ \A i \in DOMAIN arrays : arrays[i] = EmptyMap
             /\ \A i \in DOMAIN out : out[i] = "0\n"]_vars

C22_Witness ==
    /\ P = SpecialStoreProg /\ DriverReturned
    /\ walk.driver = RuntimeErrorAt(Root) /\ arrays[1] = EmptyMap

AttributeNames == {"name", "path", "size", "owner", "ino", "type"}

StatLog(h) == {io \in h.io : io.op = "stat"}
SameFileState(t) ==
    th[t].file # NoFile /\ th'[t].file = th[t].file /\ th'[t].unit = th[t].unit

\* C24: the metadata cell of a FileState is written once, by the first
\* attribute that needs metadata, with the metadata or the error of the one
\* stat; a later attribute reuses what the cell holds, an error too, without
\* a stat; .name and .path neither read nor write the cell, so a program
\* that uses only them performs no stat
C24_StatAtMostOnce ==
    [][/\ \A f \in Entries : \A md \in {"unset", "ok", "err"} :
             /\ \A a \in {"name", "path"} :
                   EvalAttr(a, f, md).md = md /\ EvalAttr(a, f, md).err = "none"
             /\ \A a \in AttributeNames \ {"name", "path"} :
                   /\ md # "unset" => EvalAttr(a, f, md).md = md
                   /\ md = "err" => EvalAttr(a, f, md).err = "IoError"
                   /\ md = "ok" => EvalAttr(a, f, md) = Ok(AttrValue(a, f), md)
                   /\ md = "unset" => EvalAttr(a, f, md).md \in {"ok", "err"}
       /\ \A t \in Threads :
             /\ (SameFileState(t) /\ th[t].md # "unset") =>
                   th'[t].md = th[t].md /\ StatLog(hist') = StatLog(hist)
             /\ (StatLog(hist') # StatLog(hist) /\ th'[t] # th[t]) =>
                   th[t].file # NoFile /\ th[t].md = "unset"
       /\ P = NameOnlyProg =>
             StatLog(hist) = {} /\ \A t \in Threads : th[t].md = "unset"]_vars

C24_Witness ==
    \E t \in Threads :
        /\ P = DivideProg /\ th[t].pc = "sinkLock" /\ th[t].line = "2\n"
        /\ th[t].md = "ok"
        /\ StatLog(hist) # {} /\ \A io \in StatLog(hist) : io.at = "cond"

RECURSIVE UnresolvedIn(_)
\* an unresolved variable occurs in expression e, subscripts included
UnresolvedIn(e) ==
    CASE e.e = "var" ->
            \/ e.x.k = "unknown"
            \/ e.x.k = "arrsub" /\ UnresolvedIn(e.x.sub)
      [] e.e = "bin" -> UnresolvedIn(e.l) \/ UnresolvedIn(e.r)
      [] OTHER -> FALSE
UnresolvedInAction(a) ==
    \E i \in DOMAIN a.sts :
        IF a.sts[i].st = "assign"
        THEN UnresolvedIn(Var(a.sts[i].lhs)) \/ UnresolvedIn(a.sts[i].rhs)
        ELSE \E j \in DOMAIN a.sts[i].args : UnresolvedIn(a.sts[i].args[j])
UnresolvedInProgram(p) ==
    \/ UnresolvedInAction(p.begin.action)
    \/ \E r \in DOMAIN p.routines :
          \/ p.routines[r].hasCond /\ UnresolvedIn(p.routines[r].cond)
          \/ UnresolvedInAction(p.routines[r].action)
    \/ UnresolvedInAction(p.end.action)

\* C25: a program that the analysis pass returned holds no unresolved
\* variable: not in a condition, an assignee, a right-hand side, a print
\* argument, nor in a subscript at any depth
C25_NoUnresolvedAfterAnalysis ==
    (P \in Compiled /\ P.analysis = "ok") => ~UnresolvedInProgram(P)

RECURSIVE SubscriptedIn(_)
\* the names that expression e of a text writes with a subscript
SubscriptedIn(e) ==
    CASE e.e = "var" ->
            IF e.x.k = "subscripted" THEN {e.x.name} \cup SubscriptedIn(e.x.sub)
            ELSE {}
      [] e.e = "bin" -> SubscriptedIn(e.l) \cup SubscriptedIn(e.r)
      [] OTHER -> {}

RECURSIVE OccurrencesIn(_, _)
\* the occurrences of identifiers in expression e of a text, each with the
\* variable that stands at the same place in the compiled expression c
OccurrencesIn(e, c) ==
    CASE e.e = "var" ->
            {[name |-> e.x.name, k |-> c.x.k,
              id |-> IF c.x.k = "unknown" THEN 0 ELSE c.x.id]}
            \cup (IF e.x.k = "subscripted" THEN OccurrencesIn(e.x.sub, c.x.sub)
                  ELSE {})
      [] e.e = "bin" -> OccurrencesIn(e.l, c.l) \cup OccurrencesIn(e.r, c.r)
      [] OTHER -> {}

\* the expressions of an action, an assignee taken as a variable expression
ExpressionsOf(a) ==
    UNION {IF a.sts[i].st = "assign"
           THEN {<<i, 0, Var(a.sts[i].lhs)>>, <<i, 1, a.sts[i].rhs>>}
           ELSE {<<i, j, a.sts[i].args[j]>> : j \in DOMAIN a.sts[i].args}
           : i \in DOMAIN a.sts}
\* the expressions of a program, each with its place
PlacesOf(p) ==
    {<<"begin", 0>> \o x : x \in ExpressionsOf(p.begin.action)}
    \cup {<<"end", 0>> \o x : x \in ExpressionsOf(p.end.action)}
    \cup UNION {{<<"routine", r>> \o x : x \in ExpressionsOf(p.routines[r].action)}
                : r \in DOMAIN p.routines}
    \cup {<<"cond", r, 0, 0, p.routines[r].cond>> :
              r \in {q \in DOMAIN p.routines : p.routines[q].hasCond}}
SamePlace(x, y) == \A i \in 1..4 : x[i] = y[i]
SubscriptedNames(text) == UNION {SubscriptedIn(x[5]) : x \in PlacesOf(text)}
Occurrences(text, c) ==
    UNION {OccurrencesIn(x[5], y[5]) :
              <<x, y>> \in {z \in PlacesOf(text) \X PlacesOf(c) : SamePlace(z[1], z[2])}}

\* C26: in a program the analysis pass returned, every occurrence of a name
\* that is subscripted somewhere is resolved to one array id, every
\* occurrence of a name that is subscripted nowhere is resolved to one
\* scalar slot, and no name is resolved both ways
C26_NamesResolvedConsistently ==
    \A text \in ProgramTexts :
        (P = Compile(text) /\ P.analysis = "ok") =>
            \A o1, o2 \in Occurrences(text, P) :
                /\ o1.name \in SubscriptedNames(text) => o1.k \in {"arr", "arrsub"}
                /\ o1.name \notin SubscriptedNames(text) => o1.k = "scalar"
                /\ o1.name = o2.name => o1.id = o2.id

\* the workers that have been started and have not finished
RunningWorkers == {w \in WorkerIds : WorkerActive(w)}

\* C27: in parallel mode all the configured workers have been started when
\* the walk waits for one of them to finish
C27_AllStartedBeforeJoin ==
    Me.pc = "join" => walk.spawned = nThreads

\* the driver thread is inside treewalk_multi_threaded's thread scope
InThreadScope == Me.pc \in {"spawn", "join"}
\* the scope has been left: the walk returned, or the panic of a worker was
\* passed on by `join().unwrap()`
ScopeLeft == WalkReturned \/ Me.pc = "panicked"

\* C28: with two or more threads the walk ends: from a state in which the
\* thread scope has been entered or a worker is running, a state is reached
\* in which the scope has been left and every worker that was started has
\* left its loop; and whenever the scope has been left no worker is running
C28_WalkTerminates ==
    /\ (InThreadScope \/ RunningWorkers # {}) ~> (ScopeLeft /\ RunningWorkers = {})
    /\ [](ScopeLeft => RunningWorkers = {})

C28_Witness ==
    /\ nThreads >= 2 /\ fault = NoFault
    /\ walk.res = "ok" /\ walk.spawned = nThreads
    /\ \A w \in 1..nThreads : th[w].pc = "exited"
    /\ \A e \in Entries : hist.ran[e] = 1 /\ (IsDir(e) => hist.taken[e] = 1)

\* worker w has found its own queue and every stealer empty and is about
\* to leave its loop
FoundNoTask(w) == th[w].pc = "steal" /\ th[w].stealIdx > nThreads
\* worker u is processing a directory that has a subdirectory it has not
\* pushed yet
StillToPush(u) ==
    /\ WorkerActive(u) /\ th[u].dir # 0
    /\ \E e \in Children(th[u].dir) : ShouldPush(e) /\ hist.pushed[e] = 0
\* a worker leaves on empty queues while another one is still processing a
\* directory and will push new work
EarlyExit ==
    \E w, u \in WorkerIds : w # u /\ FoundNoTask(w) /\ StillToPush(u)
\* a worker that leaves on empty queues is the only worker running, and no
\* directory that was pushed is left in a queue
NoEarlyExit ==
    \A w \in WorkerIds :
        FoundNoTask(w) =>
            /\ RunningWorkers = {w}
            /\ \A e \in Entries : hist.pushed[e] = hist.taken[e]

\* C29: in a walk with two or more workers of a tree with subdirectories, a
\* worker leaves its loop, having found every queue empty, while another
\* worker is still processing a directory whose subdirectories it pushes
\* afterwards
C29_WorkerExitsEarly ==
    (nThreads >= 2 /\ rootIsDir /\ fault = NoFault /\ P = CounterProg)
        => <>EarlyExit

Listed(e) ==
    /\ e \in Existing /\ ~FailsAt("entry", e)
    /\ \A d \in Ancestors(e) :
          /\ ~FailsAt("readdir", d) /\ ~FailsAt("entry", d)
          /\ d # Root => ~FailsAt("filetype", d)
\* the entries the routines have run on
Visited == {e \in Entries : hist.ran[e] > 0}

\* C31: a walk that returned without error has run the routines on the
\* root and on every listed entry, whether or not the entry is a directory
\* and whether or not its file type can be read; the set does not depend
\* on the walker
C31_SameEntriesBothWalkers ==
    (WalkReturned /\ walk.res = "ok") =>
        Visited = {e \in Entries : e = Root \/ Listed(e)}

\* nothing of the traversal has happened: no directory read, nothing
\* pushed, no queue or stack seeded, no worker started
WalkUntouched ==
    /\ {io \in hist.io : io.op = "readdir"} = {}
    /\ \A e \in Entries : hist.pushed[e] = 0 /\ hist.taken[e] = 0
    /\ stack = <<>> /\ \A w \in WorkerIds : queues[w] = <<>>
    /\ walk.spawned = 0 /\ \A w \in WorkerIds : th[w].pc = "idle"
\* the routines are running on the root, or have not started on it
RootNotDone == hist.ran[Root] = 0 \/ (Me.unit = "file" /\ Me.file = Root)

\* C32: until the routines have finished on the root nothing of the
\* traversal happens and only the root has been visited; when they return a
\* runtime error the walk returns it at once, and from then on no directory
\* is read, no queue is seeded and no worker is started
C32_RootBeforeTraversal ==
    [][/\ RootNotDone => WalkUntouched /\ Visited \subseteq {Root}
       /\ (Me.pc = "afterRoot" /\ Me.res = "Runtime") =>
             /\ WalkUntouched
             /\ walk'.res = "Runtime" /\ walk'.errAt = Root
       /\ (walk.res = "Runtime" /\ walk.errAt = Root) =>
             WalkUntouched /\ Visited = {Root}]_vars

C32_Witness ==
    /\ nThreads >= 2 /\ rootIsDir /\ fault = NoFault /\ P = SpecialArithProg
    /\ Me.pc = "walkDone" /\ walk.res = "Runtime" /\ walk.errAt = Root
    /\ WalkUntouched

\* a value that counts as true: a non-zero integer, a non-empty string, true
Truthy(v) ==
    \/ v.t = "int" /\ v.n # 0
    \/ v.t = "str" /\ v.s # ""
    \/ v.t = "bool" /\ v.n = 1
\* the value of the condition of the routine thread t is at, on the store
\* as it is now
CondNow(t) ==
    EvalU(CurRoutine(t).cond, th[t].file, th[t].md, scalars, arrays)
\* thread t has no statement left to run in the routine it is at
ActionDone(t) ==
    LET a == CurRoutine(t).action
    IN \/ th[t].pc = "cond"
       \/ th[t].pc = "stmt" /\ (IF a.has THEN th[t].si > Len(a.sts) ELSE th[t].si > 1)
       \/ th[t].pc = "stmt" /\ ~a.has /\ th[t].file = NoFile

\* C33: on one file the routines are taken one after the other in source
\* order, the next one only when the action of the one before has no
\* statement left; an action is entered exactly when its routine has no
\* condition or the condition is truthy on the store as the earlier
\* actions left it; so the program whose first routine sets arr[1] prints
\* "output" once for every file and never "skipped"
C33_RoutinesInOrder ==
    [][/\ \A t \in Threads :
             (th[t].unit = "file" /\ th'[t].unit = "file" /\ th'[t].ri # th[t].ri) =>
                 /\ th'[t].ri = th[t].ri + 1
                 /\ ActionDone(t) /\ Held(t) = {}
       /\ \A t \in Threads :
             (th[t].unit = "file" /\ th[t].pc = "routine" /\ th'[t].pc = "stmt") =>
                 ~CurRoutine(t).hasCond
       /\ \A t \in Threads :
             (th[t].unit = "file" /\ th[t].pc = "cond" /\ th'[t].pc = "stmt") =>
                 CondNow(t).err = "none" /\ Truthy(CondNow(t).val)
       /\ \A t \in Threads :
             (th[t].unit = "file" /\ th[t].pc = "cond" /\ th'[t].pc = "routine") =>
                 CondNow(t).err = "none" /\ ~Truthy(CondNow(t).val)
       /\ P = VisibleProg =>
             /\ \A i \in DOMAIN out : out[i] = "output\n"
             /\ WalkReturned => Len(out) = RoutineRuns
      ]_vars

C33_Witness ==
    /\ P = VisibleProg /\ DriverReturned /\ rootIsDir /\ fault = NoFault
    /\ nThreads >= 2 /\ Len(out) = NEntries
    /\ arrays[1] = (VInt(1) :> 1)

\* the variables of an expression in the order of their occurrence, each
\* one call of get_variable of the Locked view
RECURSIVE VarsOf(_)
VarsOf(e) ==
    CASE e.e = "var" -> <<e.x>>
      [] e.e = "bin" -> VarsOf(e.l) \o VarsOf(e.r)
      [] OTHER -> <<>>
RECURSIVE VarsOfArgs(_)
VarsOfArgs(args) ==
    IF args = <<>> THEN <<>> ELSE VarsOf(args[1]) \o VarsOfArgs(Tail(args))
\* the variables of the condition or print statement thread t is evaluating
VarsAt(t) ==
    IF th[t].pc = "cond" THEN VarsOf(CurRoutine(t).cond)
    ELSE VarsOfArgs(CurStatement(t).args)
\* operands and operators the evaluation rule is checked with
SampleOperands ==
    {Atom(VInt(0)), Atom(VInt(1)), Attr("size"),
     Bin("+", Attr("owner"), Atom(VInt(1))), Var(Arr(1))}
SampleOps == {"+", "==", "and", "or"}
\* the result of `l op r` on the file and the store of the driver
BinRule(op, l, r) ==
    LET wl == EvalU(l, Me.file, "unset", scalars, arrays)
        wr == EvalU(r, Me.file, wl.md, scalars, arrays)
        w == EvalU(Bin(op, l, r), Me.file, "unset", scalars, arrays)
        b == BinaryOp(op, wl.val, wr.val)
    IN /\ wl.err # "none" => w = wl
       /\ (wl.err = "none" /\ wr.err # "none") => w = wr
       /\ (wl.err = "none" /\ wr.err = "none") => w = Res(b.err, b.val, wr.md)

\* C34: a binary expression evaluates its left operand, then its right
\* operand, the right one whenever the left one succeeded, for `and` and
\* `or` too; the first error is the result of the expression and nothing
\* after it is evaluated.  The variables of a condition or a print are read
\* in the order of their occurrence, all of them when the evaluation
\* succeeds; `1 or .owner + 1` is the runtime error of its right operand.
C34_LeftThenRight ==
    [][/\ \A t \in Threads :
            /\ (th[t].pc \in {"cond", "print"} /\ th'[t].pc = "lock") =>
                  /\ Len(th[t].reads) < Len(VarsAt(t))
                  /\ th'[t].want = LocksFor(VarsAt(t)[Len(th[t].reads) + 1])
            /\ (th[t].pc \in {"cond", "print"}
                   /\ th'[t].pc \in {"stmt", "routine", "sinkLock"}) =>
                  Len(th[t].reads) = Len(VarsAt(t))
       /\ (Me.pc = "cond" /\ Me.reads = <<>>) =>
             \A op \in SampleOps : \A l, r \in SampleOperands : BinRule(op, l, r)
       /\ (P = LogicProg /\ WalkReturned /\ ~FailsAt("stat", Root)) =>
             /\ out = <<"9\n">>
             /\ walk.res = "Runtime" /\ walk.errAt = Root]_vars
C34_Witness ==
    /\ P = LogicProg /\ WalkReturned /\ fault = NoFault /\ nThreads >= 2
    /\ out = <<"9\n">> /\ walk.res = "Runtime" /\ walk.errAt = Root

\* the value of an expression without variables or attributes, as printed
ValueOf(e) == Display(EvalU(e, NoFile, "unset", <<>>, <<>>).val)
\* the expression a program's first routine prints
PrintedBy(p) == p.routines[1].action.sts[1].args[1]
OneTwoThree == <<Num(1), Op("+"), Num(2), Op("*"), Num(3)>>
TwoThreeTwoThree == <<Num(2), Op("+"), Num(3), Op("*"), Num(2), Op("/"), Num(3)>>

\* C35: `*` and `/` bind tighter than `+` and `-`, these tighter than the
\* comparisons, and operators of equal precedence group left to right:
\* `1 + 2 * 3` is 7 and `{ print 2 + 3 * 2 / 3 }` prints 4 for every file.
C35_PrecedenceLeftAssoc ==
    /\ ValueOf(Expression(OneTwoThree)) = "7"
    /\ (P = PrecedenceProg /\ PrintedBy(P) = Expression(TwoThreeTwoThree)) =>
          \A i \in 1..Len(out) : out[i] = "4\n"

\* the store mutexes thread t holds
StoreHeld(t) == Held(t) \cap {"S", "A"}
\* thread t is inside a call of the Locked view with all its mutexes taken
InCall(t) == th[t].pc \in {"getCrit", "setEval", "setWrite"}

HasUnlockedView(t) ==
    \/ th[t].pc \in {"setEval", "setWrite"}
    \/ th[t].pc = "getCrit" /\ NeedVar(t).k = "arrsub"
\* thread t begins a call of set_variable_expression in this step
StartsAssignment(t) ==
    th[t].pc # "lock" /\ th'[t].pc = "lock" /\ th'[t].op = "set"

\* C37: a thread that has an Unlocked view of the store holds the scalars
\* mutex and the arrays mutex, it has the view no longer in any state in
\* which it has released one of them, and a thread that has a view starts
\* no assignment.
C37_UnlockedOnlyUnderBothMutexes ==
    [][\A t \in Threads :
          /\ HasUnlockedView(t) => (mutex["S"] = t /\ mutex["A"] = t)
          /\ HasUnlockedView(t)' => (mutex'["S"] = t /\ mutex'["A"] = t)
          /\ StartsAssignment(t) => (~HasUnlockedView(t) /\ StoreHeld(t) = {})]_vars
C37_Witness ==
    \E w \in WorkerIds :
        /\ P = VisibleProg /\ hist.assigns > 1
        /\ th[w].pc = "getCrit" /\ NeedVar(w).k = "arrsub"
        /\ Held(w) = {"S", "A"}

\* the errors a call returns (a panic is not a returned error)
Returned(err) == err \in ErrorKinds
\* the right-hand side of the assignment thread t is in fails
FailsRhs(t) ==
    /\ th[t].pc = "setEval"
    /\ Returned(EvalU(CurStatement(t).rhs, th[t].file, th[t].md, scalars, arrays).err)
\* the subscript of the destination of the assignment thread t is in fails
FailsSub(t) ==
    /\ th[t].pc = "setWrite" /\ CurStatement(t).lhs.k = "arrsub"
    /\ Returned(EvalU(CurStatement(t).lhs.sub, th[t].file, th[t].md,
                       scalars, arrays).err)
\* the sizes of the entries
SizeOf == [e \in Entries |-> AttrValue("size", e).n]

\* C38: an assignment whose right-hand side or destination subscript
\* returns an error leaves every scalar and every array as it was before
\* the statement and returns with both store mutexes released and with that
\* error; the assignments of the other files take effect: with a failing
\* stat of one file `{ tot += .size }` sums the sizes of all the others.
C38_FailedAssignmentWritesNothing ==
    [][/\ \A t \in Threads :
            /\ (FailsRhs(t) \/ FailsSub(t)) =>
                  /\ scalars' = scalars /\ arrays' = arrays
                  /\ \A m \in {"S", "A"} : mutex'[m] = Free
                  /\ th'[t].pc \notin {"lock", "setEval", "setWrite", "panicked"}
                  /\ Returned(th'[t].raw)
            /\ FailsSub(t) => (scalars' = th[t].pre.sc /\ arrays' = th[t].pre.ar)
       /\ (P = SumSizeProg /\ WalkReturned /\ walk.res = "ok") =>
             scalars[1] = SumOver(SizeOf, {e \in Visited : ~StatFails(e)})]_vars
C38_Witness ==
    /\ P = SumSizeProg /\ nThreads >= 2 /\ rootIsDir
    /\ fault = [kind |-> "stat", at |-> 4]
    /\ WalkReturned /\ walk.res = "ok" /\ hist.ran[4] > 0
    /\ scalars[1] = SumOver(SizeOf, Entries \ {4})

\* some thread is inside run_routines on entry d
RunningOn(d) == \E t \in Threads : th[t].unit = "file" /\ th[t].file = d
\* run_routines was called on entry d and has returned
DoneOn(d) == hist.ran[d] > 0 /\ ~RunningOn(d)

\* C39: in both walkers the routines have run on a directory before it is
\* read: when run_routines has been called on a non-root entry it has
\* returned on each of its ancestors, and a directory about to be read
\* (popped from the stack, or taken from a queue) had its routines run.
C39_DirectoryRoutinesBeforeRead ==
    /\ \A e \in Entries \ {Root} :
          hist.ran[e] > 0 => \A d \in Ancestors(e) : DoneOn(d)
    /\ (Me.pc = "stPop" /\ stack # <<>>) => DoneOn(stack[Len(stack)])
    /\ \A w \in WorkerIds : th[w].pc = "open" => DoneOn(th[w].dir)
C39_Witness ==
    /\ nThreads >= 2 /\ rootIsDir /\ fault = NoFault
    /\ RunningOn(5) /\ DoneOn(2) /\ DoneOn(Root)
    /\ \E w \in WorkerIds : th[w].dir = 2 /\ th[w].file = 5

RECURSIVE AllVars(_)
\* the variables of an expression, those inside subscripts included
AllVars(e) ==
    CASE e.e = "var" ->
            {e.x} \cup (IF e.x.k = "arrsub" THEN AllVars(e.x.sub) ELSE {})
      [] e.e = "bin" -> AllVars(e.l) \cup AllVars(e.r)
      [] OTHER -> {}
ProgramVars(p) == UNION {AllVars(x[5]) : x \in PlacesOf(p)}
\* every scalar slot and array id of program p is one the store has
IdsWithinStore(p) ==
    \A x \in ProgramVars(p) :
        /\ x.k = "scalar" => x.id \in 1..p.numScalars
        /\ x.k \in {"arr", "arrsub"} => x.id \in 1..p.numArrays
\* the store access thread t is about to make takes a panic branch
AtStorePanic(t) ==
    \/ /\ th[t].pc = "getCrit"
       /\ GetValue(NeedVar(t), th[t].file, th[t].md, scalars, arrays).err = "Panic"
    \/ /\ th[t].pc = "setEval"
       /\ EvalU(CurStatement(t).rhs, th[t].file, th[t].md, scalars, arrays).err = "Panic"
    \/ /\ th[t].pc = "setWrite"
       /\ \/ CurStatement(t).lhs.k \in {"arr", "unknown"}
          \/ /\ CurStatement(t).lhs.k = "arrsub"
             /\ EvalU(CurStatement(t).lhs.sub, th[t].file, th[t].md,
                      scalars, arrays).err = "Panic"

\* C40: a program that the compiler and the analysis pass accepted never
\* takes a panic branch of the variable store: no thread is about to
\* evaluate an unresolved variable or a bare array name through the
\* Unlocked view or to assign to a bare array name, and every slot and id
\* of the program is within the store.
C40_NoStorePanic ==
    (P \in Compiled /\ P.analysis = "ok") =>
        /\ IdsWithinStore(P)
        /\ \A t \in Threads : ~AtStorePanic(t)

====
